---- MODULE Spec2Model ----
(***************************************************************************)
(* Model of the Arcade physics world of the Black engine                   *)
(* (src/src/physics/arcade/Arcade.js): the pair registry kept in step with *)
(* the scene graph, the collision queries and the fixed-update step.       *)
(*                                                                         *)
(* The simulation is modelled along the x axis with integer coordinates.   *)
(* Pair objects are heap cells with an identity (their index in `heap`),   *)
(* because the code compares and searches them by reference.               *)
(***************************************************************************)
EXTENDS Integers, Sequences, FiniteSets, TLC

(***************************************************************************)
(* Bounds of the model.                                                    *)
(***************************************************************************)
\* number of scene-graph events explored from construction
MaxEvents == 5
\* number of handler calls explored when steps and queries are mixed in
MaxQueryEvents == 4
\* number of calls explored when the step runs under forces and tunables
MaxStepEvents == 5
\* number of calls explored when the bounds are set, enabled and disabled
MaxBoundsEvents == 5
\* number of calls explored on the message dispatchers
MaxMessageEvents == 5
\* number of calls explored when posts bubble, are canceled or overheard
MaxRoutingEvents == 5
\* number of calls explored on the texture units
MaxTextureEvents == 5
\* gl.getParameter(gl.MAX_TEXTURE_IMAGE_UNITS): the number of texture units
MAX_TEXTURE_IMAGE_UNITS == 2

(***************************************************************************)
(* The scene: three nodes, each carrying one RigidBody, and three explicit *)
(* colliders that can be attached to / detached from their node.           *)
(***************************************************************************)
Bodies == {"b1", "b2", "b3"}

ExplicitShapes == {"c1", "k1", "c2"}

\* JavaScript's undefined and null
Undefined == "undefined"
Null == "null"

\* Arcade.mBoundsBody: the shared static body of the bounds
mBoundsBody == "bb"

\* Arcade.mBoundsLeft, mBoundsRight, mBoundsTop, mBoundsBottom, in the order
\* __initBounds attaches them
Walls == <<"wl", "wr", "wt", "wb">>

\* the nodes the bounds can be parented to: Black.stage and a node a caller
\* passes to setBounds
BoundsParents == {"stage", "panel"}

AllBodies == Bodies \cup {mBoundsBody}

\* RigidBody.mCollider: the default collider every body owns
mCollider(body) ==
  CASE body = "b1" -> "d1"
    [] body = "b2" -> "d2"
    [] body = "b3" -> "d3"
    [] body = mBoundsBody -> "db"

DefaultShapes == {mCollider(b) : b \in Bodies}

Shapes == ExplicitShapes \cup DefaultShapes

\* the node (and so the body) a collider belongs to
Home(s) ==
  CASE s \in {"c1", "k1", "d1"} -> "b1"
    [] s \in {"c2", "d2"} -> "b2"
    [] s = "d3" -> "b3"

\* `x instanceof BoxCollider`
IsBox(s) == s \in {"k1", "d1", "d2", "d3", "db", "wl", "wr", "wt", "wb"}

\* body.mInvMass: b3 and the bounds body are static
mInvMass(body) == IF body \in {"b3", mBoundsBody} THEN 0 ELSE 1

PairKinds == {"BoxToBox", "CircleToCircle", "BoxToCircle"}

VARIABLES
  mBodies,          \* Arcade.mBodies: sequence of bodies
  mPairs,           \* Arcade.mPairs: sequence of pair identities
  mPairsHash,       \* Arcade.mPairsHash: function from pair id to pair identity
  bodyPairs,        \* body.mPairs of every body
  heap,             \* the Pair objects constructed so far, by identity
  pool,             \* per pair kind, the stack of released pair identities
  mCollidersCache,  \* gameObject.mCollidersCache of every node
  mContacts,        \* Arcade.mContacts
  mPosition,        \* body.mPosition.x
  mVelocity,        \* body.mVelocity.x
  mForce,           \* body.mForce.x
  gravity,          \* Arcade.gravity.x
  iterations,       \* Arcade.iterations
  mBoundsParent,    \* Arcade.mBoundsParent
  mBoundsInited,    \* Arcade.mBoundsInited
  wallsRect,        \* the rectangle the four walls' geometry was set from
  boundsGameObject, \* mBoundsBody.gameObject: the node it was attached to
  nodeCache,        \* mCollidersCache of the nodes the bounds are parented to
  mListeners,       \* dispatcher.mListeners of every dispatcher
  bindings,         \* the MessageBinding objects constructed so far, by identity
  mOverheardHandlers, \* MessageDispatcher.mOverheardHandlers, by message name
  onStage,          \* the game objects that are attached to their parent
  invocations,      \* the bindings whose callback ran, in the order of the calls
  mBoundTextures,   \* WebGLTextures.mBoundTextures: the texture of every unit
  mBatchTextures,   \* WebGLTextures.mBatchTextures: the same, for this batch
  batched,          \* the textures bindTexture gave a unit since the last endBatch
  last,             \* the last handler run: its name, arguments and callbacks
  events            \* number of handler calls made so far

vars == <<mBodies, mPairs, mPairsHash, bodyPairs, heap, pool, mCollidersCache,
          mContacts, mPosition, mVelocity, mForce, gravity, iterations,
          mBoundsParent, mBoundsInited, wallsRect, boundsGameObject, nodeCache,
          mListeners, bindings, mOverheardHandlers, onStage, invocations,
          mBoundTextures, mBatchTextures, batched, last, events>>

(***************************************************************************)
(* JavaScript array primitives the handlers rely on.                       *)
(***************************************************************************)
Range(seq) == {seq[i] : i \in 1..Len(seq)}

\* Array.prototype.indexOf: the 0-based index of the first match, or -1
IndexOf(seq, x) ==
  IF x \in Range(seq)
    THEN (CHOOSE i \in 1..Len(seq) : seq[i] = x /\ \A j \in 1..(i - 1) : seq[j] # x) - 1
    ELSE -1

\* Array.prototype.splice(start, 1): a negative start counts from the end
Splice(seq, start) ==
  LET n == Len(seq)
      s == IF start < 0 THEN (IF n + start < 0 THEN 0 ELSE n + start) ELSE start
  IN IF s >= n THEN seq
     ELSE [i \in 1..(n - 1) |-> IF i <= s THEN seq[i] ELSE seq[i + 1]]

(***************************************************************************)
(* Pair objects and their pools.                                           *)
(***************************************************************************)
\* new Pair(): the fields of a freshly constructed pair of the given kind
NewPair(kind) ==
  [kind |-> kind, a |-> Null, b |-> Null, bodyA |-> Null, bodyB |-> Null,
   mInCollision |-> FALSE, mNormal |-> 0, mOverlap |-> 0, mMass |-> 0,
   mNormalImpulse |-> 0, mTangentImpulse |-> 0]

\* Pair.__id(a, b): the same id for (a, b) and (b, a)
PairId(a, b) == {a, b}

\* pair.set(a, b, bodyA, bodyB): a recycled pair starts from a clean state
PairSet(p, a, b, bodyA, bodyB) ==
  [NewPair(p.kind) EXCEPT !.a = a, !.b = b, !.bodyA = bodyA, !.bodyB = bodyB]

\* ObjectPool.get(): the most recently released object, or a new one
PoolGet(w, kind) ==
  IF Len(w.pool[kind]) > 0
    THEN [id |-> w.pool[kind][Len(w.pool[kind])],
          w  |-> [w EXCEPT !.pool[kind] = SubSeq(@, 1, Len(@) - 1)]]
    ELSE [id |-> Len(w.heap) + 1,
          w  |-> [w EXCEPT !.heap = Append(@, NewPair(kind))]]

\* ObjectPool.release(object): push on the released stack, the object is
\* left as it is
PoolRelease(w, id) == [w EXCEPT !.pool[w.heap[id].kind] = Append(@, id)]

(***************************************************************************)
(* The registry handlers, as functions of the world record w.              *)
(***************************************************************************)
World ==
  [mBodies |-> mBodies, mPairs |-> mPairs, mPairsHash |-> mPairsHash,
   bodyPairs |-> bodyPairs, heap |-> heap, pool |-> pool]

\* __addPair reordering the shapes of a mixed pair but not their bodies
__addPair_shapesOnly(w, a0, b0, bodyA0, bodyB0) ==
  LET isBoxA == IsBox(a0)
      isBoxB == IsBox(b0)
      kind == IF isBoxA /\ isBoxB THEN "BoxToBox"
              ELSE IF ~isBoxA /\ ~isBoxB THEN "CircleToCircle"
              ELSE "BoxToCircle"
      swap == kind = "BoxToCircle" /\ isBoxB
      a == IF swap THEN b0 ELSE a0
      b == IF swap THEN a0 ELSE b0
      got == PoolGet(w, kind)
      pair == got.id
      w1 == [got.w EXCEPT !.heap[pair] = PairSet(@, a, b, bodyA0, bodyB0)]
      w2 == [w1 EXCEPT !.mPairs = Append(@, pair)]
      w3 == [w2 EXCEPT !.mPairsHash =
               [k \in (DOMAIN w2.mPairsHash) \cup {PairId(a, b)} |->
                  IF k = PairId(a, b) THEN pair ELSE w2.mPairsHash[k]]]
      w4 == [w3 EXCEPT !.bodyPairs[bodyA0] = Append(@, pair)]
  IN [w4 EXCEPT !.bodyPairs[bodyB0] = Append(@, pair)]

\* Arcade.__addPair
__addPair(w, a0, b0, bodyA0, bodyB0) ==
  LET isBoxA == IsBox(a0)
      isBoxB == IsBox(b0)
      kind == IF isBoxA /\ isBoxB THEN "BoxToBox"
              ELSE IF ~isBoxA /\ ~isBoxB THEN "CircleToCircle"
              ELSE "BoxToCircle"
      swap == kind = "BoxToCircle" /\ isBoxB
      a == IF swap THEN b0 ELSE a0
      b == IF swap THEN a0 ELSE b0
      bodyA == IF swap THEN bodyB0 ELSE bodyA0
      bodyB == IF swap THEN bodyA0 ELSE bodyB0
      got == PoolGet(w, kind)
      pair == got.id
      w1 == [got.w EXCEPT !.heap[pair] = PairSet(@, a, b, bodyA, bodyB)]
      w2 == [w1 EXCEPT !.mPairs = Append(@, pair)]
      w3 == [w2 EXCEPT !.mPairsHash =
               [k \in (DOMAIN w2.mPairsHash) \cup {PairId(a, b)} |->
                  IF k = PairId(a, b) THEN pair ELSE w2.mPairsHash[k]]]
      w4 == [w3 EXCEPT !.bodyPairs[bodyA] = Append(@, pair)]
  IN [w4 EXCEPT !.bodyPairs[bodyB] = Append(@, pair)]

\* the colliders a body is paired through: its node's explicit colliders or,
\* when there are none, its default collider (Arcade.js:194-200, 282-288)
CollidersOf(cache, body) ==
  IF Len(cache[body]) = 0 THEN <<mCollider(body)>> ELSE cache[body]

RECURSIVE AddPairsInner(_, _, _, _, _, _)
AddPairsInner(w, collider, fromBody, body, colliders, j) ==
  IF j > Len(colliders) THEN w
  ELSE AddPairsInner(__addPair(w, collider, colliders[j], fromBody, body),
                     collider, fromBody, body, colliders, j + 1)

RECURSIVE AddPairsLoop(_, _, _, _, _, _)
AddPairsLoop(w, cache, collider, fromBody, bodies, i) ==
  IF i > Len(bodies) THEN w
  ELSE IF bodies[i] = fromBody
    THEN AddPairsLoop(w, cache, collider, fromBody, bodies, i + 1)
    ELSE AddPairsLoop(
           AddPairsInner(w, collider, fromBody, bodies[i],
                         CollidersOf(cache, bodies[i]), 1),
           cache, collider, fromBody, bodies, i + 1)

\* __addPairs without the `body === fromBody` test
RECURSIVE AddPairsLoopAll(_, _, _, _, _, _)
AddPairsLoopAll(w, cache, collider, fromBody, bodies, i) ==
  IF i > Len(bodies) THEN w
  ELSE AddPairsLoopAll(
         AddPairsInner(w, collider, fromBody, bodies[i],
                       CollidersOf(cache, bodies[i]), 1),
         cache, collider, fromBody, bodies, i + 1)

__addPairs_noSkip(w, cache, collider, fromBody) ==
  AddPairsLoopAll(w, cache, collider, fromBody, w.mBodies, 1)

\* Arcade.__addPairs
__addPairs(w, cache, collider, fromBody) ==
  AddPairsLoop(w, cache, collider, fromBody, w.mBodies, 1)

\* the turn of the loop without pair.constructor.pool.release(pair)
RemovePairAt_noRelease(w, i, collider) ==
  LET pair == w.mPairs[i + 1]
  IN IF w.heap[pair].a = collider \/ w.heap[pair].b = collider
     THEN
       LET w1 == [w EXCEPT !.mPairs = Splice(@, i)]
           p == w1.heap[pair]
           w3 == [w1 EXCEPT !.mPairsHash =
                    [k \in (DOMAIN w1.mPairsHash) \ {PairId(p.a, p.b)} |->
                       w1.mPairsHash[k]]]
           w4 == [w3 EXCEPT !.bodyPairs[p.bodyA] = Splice(@, IndexOf(@, pair))]
       IN [w4 EXCEPT !.bodyPairs[p.bodyB] = Splice(@, IndexOf(@, pair))]
     ELSE w

\* one turn of the loop of Arcade.__removePairs, i is the 0-based index
RemovePairAt(w, i, collider) ==
  LET pair == w.mPairs[i + 1]
  IN IF w.heap[pair].a = collider \/ w.heap[pair].b = collider
     THEN
       LET w1 == [w EXCEPT !.mPairs = Splice(@, i)]
           w2 == PoolRelease(w1, pair)
           p == w2.heap[pair]
           w3 == [w2 EXCEPT !.mPairsHash =
                    [k \in (DOMAIN w2.mPairsHash) \ {PairId(p.a, p.b)} |->
                       w2.mPairsHash[k]]]
           w4 == [w3 EXCEPT !.bodyPairs[p.bodyA] = Splice(@, IndexOf(@, pair))]
       IN [w4 EXCEPT !.bodyPairs[p.bodyB] = Splice(@, IndexOf(@, pair))]
     ELSE w

RECURSIVE RemovePairsLoop(_, _, _)
RemovePairsLoop(w, i, collider) ==
  IF i < 0 THEN w
  ELSE RemovePairsLoop(RemovePairAt(w, i, collider), i - 1, collider)

\* Arcade.__removePairs
__removePairs(w, collider) == RemovePairsLoop(w, Len(w.mPairs) - 1, collider)

RECURSIVE AddBodyLoop(_, _, _, _, _)
AddBodyLoop(w, cache, colliders, body, i) ==
  IF i > Len(colliders) THEN w
  ELSE AddBodyLoop(__addPairs(w, cache, colliders[i], body),
                   cache, colliders, body, i + 1)

\* Arcade.__addBody
__addBody(w, cache, body) ==
  LET w1 == [w EXCEPT !.bodyPairs[body] = <<>>]
      w2 == AddBodyLoop(w1, cache, CollidersOf(cache, body), body, 1)
  IN [w2 EXCEPT !.mBodies = Append(@, body)]

RECURSIVE RemoveBodyLoop(_, _, _)
RemoveBodyLoop(w, colliders, i) ==
  IF i > Len(colliders) THEN w
  ELSE RemoveBodyLoop(__removePairs(w, colliders[i]), colliders, i + 1)

\* Arcade.__removeBody
__removeBody(w, cache, body) ==
  LET w1 == RemoveBodyLoop(w, CollidersOf(cache, body), 1)
      w2 == [w1 EXCEPT !.bodyPairs[body] = <<>>]
  IN [w2 EXCEPT !.mBodies = Splice(@, IndexOf(@, body))]

\* child.getComponent(RigidBody): only a node has components; every node of
\* the scene carries the body of the same name
IsNode(x) == x \in Bodies

\* Arcade.__addCollider; a result of "throws" is a TypeError raised by the
\* handler, which leaves the world as it was when raised
__addCollider(w, cache, child, collider) ==
  IF ~IsNode(child) THEN [w |-> w, throws |-> TRUE]
  ELSE
    LET body == child
    IN IF IndexOf(w.mBodies, body) # -1
       THEN LET w1 == __addPairs(w, cache, collider, body)
            IN [w |-> IF Len(cache[child]) = 1
                        THEN __removePairs(w1, mCollider(body))
                        ELSE w1,
                throws |-> FALSE]
       ELSE [w |-> w, throws |-> FALSE]

\* Arcade.__removeCollider(child, collider)
__removeCollider(w, cache, child, collider) ==
  IF ~IsNode(child) THEN [w |-> w, throws |-> TRUE]
  ELSE
    LET body == child
    IN IF IndexOf(w.mBodies, body) # -1
       THEN LET w1 == __removePairs(w, collider)
            IN IF Len(cache[child]) = 0
                 THEN __addCollider(w1, cache, child, mCollider(body))
                 ELSE [w |-> w1, throws |-> FALSE]
       ELSE [w |-> w, throws |-> FALSE]

\* Arcade.onComponentRemoved for a Collider component: the collider is
\* passed in the place of the child, the collider parameter stays undefined
onColliderRemoved(w, cache, child, component) ==
  __removeCollider(w, cache, component, Undefined)

\* Arcade.onComponentAdded for a Collider component
onColliderAdded(w, cache, child, component) ==
  __addCollider(w, cache, child, component)

(***************************************************************************)
(* The fixed-update step.  ph is the record of what a step reads and       *)
(* writes: the pair objects, the contact list and the bodies' position,    *)
(* velocity and force; ph.log lists, in order, the calls and writes the    *)
(* step makes.                                                             *)
(***************************************************************************)
Abs(x) == IF x < 0 THEN -x ELSE x

Max(x, y) == IF x < y THEN y ELSE x

\* half the width of a box, the radius of a circle
Extent(s) == IF s = "k1" THEN 2 ELSE 1

\* body.frictionAir
frictionAir(body) == 0

\* Pair.unitsPerMeter
unitsPerMeter == 1

\* pair.test() of the three pair kinds: sets the in-collision flag and, on
\* overlap, the normal from A to B and the overlap; shapes that only touch
\* do not collide, coincident centres get the normal +x
PairTest(p, pos) ==
  LET d == pos[p.bodyB] - pos[p.bodyA]
      reach == Extent(p.a) + Extent(p.b)
      hit ==
        CASE p.kind = "BoxToBox" -> reach - Abs(d) > 0
          [] p.kind = "CircleToCircle" -> d * d < reach * reach
          [] p.kind = "BoxToCircle" ->
               LET closest == IF d > Extent(p.a) THEN Extent(p.a)
                              ELSE IF d < -Extent(p.a) THEN -Extent(p.a)
                              ELSE d
               IN Abs(d - closest) < Extent(p.b)
  IN IF hit
       THEN [p EXCEPT !.mInCollision = TRUE,
                      !.mNormal = IF d < 0 THEN -1 ELSE 1,
                      !.mOverlap = reach - Abs(d)]
       ELSE [p EXCEPT !.mInCollision = FALSE]

\* pair.preSolve(): the combined inverse mass along the normal
PairPreSolve(p) == [p EXCEPT !.mMass = mInvMass(p.bodyA) + mInvMass(p.bodyB)]

\* pair.solveVelocity(): one sequential impulse along the normal, clamped so
\* that the accumulated impulse stays non-negative; nothing is applied when
\* both bodies are static
PairSolveVelocity(ph, id) ==
  LET p == ph.heap[id]
      rv == (ph.vel[p.bodyB] - ph.vel[p.bodyA]) * p.mNormal
      acc == IF p.mMass = 0 THEN p.mNormalImpulse
             ELSE Max(p.mNormalImpulse + ((0 - rv) \div p.mMass), 0)
      j == acc - p.mNormalImpulse
      v1 == [ph.vel EXCEPT ![p.bodyA] = @ - j * mInvMass(p.bodyA) * p.mNormal]
      v2 == [v1 EXCEPT ![p.bodyB] = @ + j * mInvMass(p.bodyB) * p.mNormal]
  IN [ph EXCEPT !.vel = v2, !.heap[id].mNormalImpulse = acc]

\* pair.solvePosition(): moves the non-static bodies apart along the normal
\* by their share of the remaining penetration
PairSolvePosition(ph, id) ==
  LET p == ph.heap[id]
      pen == Extent(p.a) + Extent(p.b) - Abs(ph.pos[p.bodyB] - ph.pos[p.bodyA])
      share(b) == IF p.mMass = 0 \/ pen <= 0 THEN 0
                  ELSE (pen * mInvMass(b) + p.mMass - 1) \div p.mMass
      x1 == [ph.pos EXCEPT ![p.bodyA] = @ - share(p.bodyA) * p.mNormal]
      x2 == [x1 EXCEPT ![p.bodyB] = @ + share(p.bodyB) * p.mNormal]
  IN [ph EXCEPT !.pos = x2]

\* one entry of the log: what is done and to which body or pair
Did(call, on) == [call |-> call, on |-> on]

\* Arcade.js:367-369: bodies[i].update() refreshes the shapes of the body
\* from its transform, which the tests below read directly
RECURSIVE UpdateLoop(_, _, _)
UpdateLoop(ph, bodies, i) ==
  IF i > Len(bodies) THEN ph
  ELSE UpdateLoop([ph EXCEPT !.log = Append(@, Did("update", bodies[i]))],
                  bodies, i + 1)

\* Arcade.js:373-375
RECURSIVE MarkLoop(_, _, _)
MarkLoop(ph, pairs, i) ==
  IF i > Len(pairs) THEN ph
  ELSE MarkLoop([ph EXCEPT !.heap[pairs[i]].mInCollision = TRUE,
                           !.log = Append(@, Did("mark", pairs[i]))],
                pairs, i + 1)

\* Arcade.js:381-383
RECURSIVE NarrowLoop(_, _, _)
NarrowLoop(ph, pairs, i) ==
  IF i > Len(pairs) THEN ph
  ELSE NarrowLoop(
         IF ph.heap[pairs[i]].mInCollision
           THEN [ph EXCEPT !.heap[pairs[i]] = PairTest(@, ph.pos),
                           !.log = Append(@, Did("test", pairs[i]))]
           ELSE ph,
         pairs, i + 1)

\* Arcade.js:385-392
RECURSIVE ContactsLoop(_, _, _)
ContactsLoop(ph, pairs, i) ==
  IF i > Len(pairs) THEN ph
  ELSE ContactsLoop(
         IF ph.heap[pairs[i]].mInCollision
           THEN [ph EXCEPT !.contacts = Append(@, pairs[i]),
                           !.log = Append(@, Did("push", pairs[i]))]
           ELSE [ph EXCEPT !.heap[pairs[i]].mNormalImpulse = 0,
                           !.heap[pairs[i]].mTangentImpulse = 0,
                           !.log = Append(@, Did("reset", pairs[i]))],
         pairs, i + 1)

\* Arcade.js:409-421
RECURSIVE VelocityLoop(_, _, _, _, _)
VelocityLoop(ph, bodies, g, dt, i) ==
  IF i > Len(bodies) THEN ph
  ELSE LET body == bodies[i]
       IN VelocityLoop(
            IF mInvMass(body) = 0 THEN ph
            ELSE [ph EXCEPT !.vel[body] =
                    (@ + (ph.force[body] * mInvMass(body) + g) * dt)
                      * (1 - frictionAir(body)),
                            !.log = Append(@, Did("velocity", body))],
            bodies, g, dt, i + 1)

\* Arcade.js:423-425
RECURSIVE PreSolveLoop(_, _)
PreSolveLoop(ph, i) ==
  IF i > Len(ph.contacts) THEN ph
  ELSE PreSolveLoop([ph EXCEPT !.heap[ph.contacts[i]] = PairPreSolve(@),
                               !.log = Append(@, Did("preSolve", ph.contacts[i]))],
                    i + 1)

\* Arcade.js:428-430 and 447-449: one sweep over the contacts
RECURSIVE SweepVelocity(_, _)
SweepVelocity(ph, j) ==
  IF j > Len(ph.contacts) THEN ph
  ELSE SweepVelocity(
         [PairSolveVelocity(ph, ph.contacts[j]) EXCEPT
            !.log = Append(@, Did("solveVelocity", ph.contacts[j]))],
         j + 1)

RECURSIVE SweepPosition(_, _)
SweepPosition(ph, j) ==
  IF j > Len(ph.contacts) THEN ph
  ELSE SweepPosition(
         [PairSolvePosition(ph, ph.contacts[j]) EXCEPT
            !.log = Append(@, Did("solvePosition", ph.contacts[j]))],
         j + 1)

\* Arcade.js:427-431: `for (i = 0; i < iterations; i++)`
RECURSIVE VelocityIterations(_, _, _)
VelocityIterations(ph, n, i) ==
  IF ~(i < n) THEN ph
  ELSE VelocityIterations(SweepVelocity(ph, 1), n, i + 1)

\* Arcade.js:446-450
RECURSIVE PositionIterations(_, _, _)
PositionIterations(ph, n, i) ==
  IF ~(i < n) THEN ph
  ELSE PositionIterations(SweepPosition(ph, 1), n, i + 1)

\* Arcade.js:433-444
RECURSIVE PositionLoop(_, _, _, _)
PositionLoop(ph, bodies, dt, i) ==
  IF i > Len(bodies) THEN ph
  ELSE LET body == bodies[i]
           ph1 == [ph EXCEPT !.force[body] = 0,
                             !.log = Append(@, Did("clearForce", body))]
       IN PositionLoop(
            IF mInvMass(body) = 0 THEN ph1
            ELSE [ph1 EXCEPT !.pos[body] = @ + ph1.vel[body] * dt * unitsPerMeter,
                             !.log = Append(@, Did("position", body))],
            bodies, dt, i + 1)

\* the velocity integration without the skip of static bodies
RECURSIVE VelocityLoopAll(_, _, _, _, _)
VelocityLoopAll(ph, bodies, g, dt, i) ==
  IF i > Len(bodies) THEN ph
  ELSE VelocityLoopAll(
         [ph EXCEPT !.vel[bodies[i]] =
            (@ + (ph.force[bodies[i]] * mInvMass(bodies[i]) + g) * dt)
              * (1 - frictionAir(bodies[i]))],
         bodies, g, dt, i + 1)

\* the position integration without `body.mForce.set(0, 0)`
RECURSIVE PositionLoopKeep(_, _, _, _)
PositionLoopKeep(ph, bodies, dt, i) ==
  IF i > Len(bodies) THEN ph
  ELSE PositionLoopKeep(
         IF mInvMass(bodies[i]) = 0 THEN ph
         ELSE [ph EXCEPT !.pos[bodies[i]] =
                 @ + ph.vel[bodies[i]] * dt * unitsPerMeter],
         bodies, dt, i + 1)

\* __solve leaving the accumulated forces in place
__solve_keepForce(ph, bodies, n, g, dt) ==
  LET p1 == VelocityLoop(ph, bodies, g, dt, 1)
      p2 == PreSolveLoop(p1, 1)
      p3 == VelocityIterations(p2, n, 0)
      p4 == PositionLoopKeep(p3, bodies, dt, 1)
  IN PositionIterations(p4, n, 0)

\* __solve sweeping the contacts once, whatever the iterations are
__solve_oneSweep(ph, bodies, n, g, dt) ==
  LET p1 == VelocityLoop(ph, bodies, g, dt, 1)
      p2 == PreSolveLoop(p1, 1)
      p3 == VelocityIterations(p2, 1, 0)
      p4 == PositionLoop(p3, bodies, dt, 1)
  IN PositionIterations(p4, 1, 0)

\* __solve integrating the positions before any contact is resolved
__solve_integrateFirst(ph, bodies, n, g, dt) ==
  LET p1 == VelocityLoop(ph, bodies, g, dt, 1)
      p2 == PositionLoop(p1, bodies, dt, 1)
      p3 == PreSolveLoop(p2, 1)
      p4 == VelocityIterations(p3, n, 0)
  IN PositionIterations(p4, n, 0)

\* __solve integrating the velocity of every body, static or not
__solve_allBodies(ph, bodies, n, g, dt) ==
  LET p1 == VelocityLoopAll(ph, bodies, g, dt, 1)
      p2 == PreSolveLoop(p1, 1)
      p3 == VelocityIterations(p2, n, 0)
      p4 == PositionLoop(p3, bodies, dt, 1)
  IN PositionIterations(p4, n, 0)

\* Arcade.__solve
__solve(ph, bodies, n, g, dt) ==
  LET p1 == VelocityLoop(ph, bodies, g, dt, 1)
      p2 == PreSolveLoop(p1, 1)
      p3 == VelocityIterations(p2, n, 0)
      p4 == PositionLoop(p3, bodies, dt, 1)
  IN PositionIterations(p4, n, 0)

\* the contact collection without the reset of the separated pairs' impulses
RECURSIVE ContactsLoopKeep(_, _, _)
ContactsLoopKeep(ph, pairs, i) ==
  IF i > Len(pairs) THEN ph
  ELSE ContactsLoopKeep(
         IF ph.heap[pairs[i]].mInCollision
           THEN [ph EXCEPT !.contacts = Append(@, pairs[i])]
           ELSE ph,
         pairs, i + 1)

\* onFixedUpdate without `contacts.length = 0`
onFixedUpdate_keepContacts(ph, bodies, pairs, n, g, dt) ==
  LET p0 == UpdateLoop(ph, bodies, 1)
      p1 == MarkLoop(p0, pairs, 1)
      p2 == NarrowLoop(p1, pairs, 1)
      p3 == ContactsLoop(p2, pairs, 1)
  IN __solve(p3, bodies, n, g, dt)

\* onFixedUpdate testing only the pairs whose flag an earlier step left set
onFixedUpdate_noMark(ph, bodies, pairs, n, g, dt) ==
  LET p0 == UpdateLoop([ph EXCEPT !.contacts = <<>>], bodies, 1)
      p2 == NarrowLoop(p0, pairs, 1)
      p3 == ContactsLoop(p2, pairs, 1)
  IN __solve(p3, bodies, n, g, dt)

\* onFixedUpdate keeping the accumulated impulses of separated pairs
onFixedUpdate_keepImpulses(ph, bodies, pairs, n, g, dt) ==
  LET p0 == UpdateLoop([ph EXCEPT !.contacts = <<>>], bodies, 1)
      p1 == MarkLoop(p0, pairs, 1)
      p2 == NarrowLoop(p1, pairs, 1)
      p3 == ContactsLoopKeep(p2, pairs, 1)
  IN __solve(p3, bodies, n, g, dt)

\* Arcade.onFixedUpdate
onFixedUpdate(ph, bodies, pairs, n, g, dt) ==
  LET p0 == UpdateLoop([ph EXCEPT !.contacts = <<>>], bodies, 1)
      p1 == MarkLoop(p0, pairs, 1)
      p2 == NarrowLoop(p1, pairs, 1)
      p3 == ContactsLoop(p2, pairs, 1)
  IN __solve(p3, bodies, n, g, dt)

\* Collider has no property `a` or `b`
ColliderProp(collider, name) == Undefined

\* Arcade.collisionInfo: the sequence of callback invocations it makes, each
\* with the normal and the overlap passed
collisionInfo(hash, objects, colliderA, colliderB) ==
  LET key == PairId(ColliderProp(colliderA, "a"), ColliderProp(colliderB, "b"))
  IN IF key \in DOMAIN hash /\ objects[hash[key]].mInCollision
       THEN LET pair == objects[hash[key]]
                sign == IF pair.a = colliderA THEN 1 ELSE -1
            IN <<[normal |-> pair.mNormal * sign, overlap |-> pair.mOverlap]>>
       ELSE <<>>

\* Arcade.inCollision, the loop over bodyA.mPairs from position i: what the
\* call returns and the callback invocations it makes
RECURSIVE InCollisionLoop(_, _, _, _, _, _)
InCollisionLoop(list, objects, bodyA, bodyB, hasCb, i) ==
  IF i > Len(list) THEN [result |-> FALSE, calls |-> <<>>]
  ELSE LET pair == objects[list[i]]
           sign == IF pair.bodyA = bodyA /\ pair.bodyB = bodyB THEN 1
                   ELSE IF pair.bodyA = bodyB /\ pair.bodyB = bodyA THEN -1
                   ELSE 0
       IN IF ~pair.mInCollision
            THEN InCollisionLoop(list, objects, bodyA, bodyB, hasCb, i + 1)
          ELSE IF sign = 0
            THEN InCollisionLoop(list, objects, bodyA, bodyB, hasCb, i + 1)
          ELSE [result |-> TRUE,
                calls |-> IF hasCb
                            THEN <<[normal |-> pair.mNormal * sign,
                                    overlap |-> pair.mOverlap]>>
                            ELSE <<>>]

\* inCollision scanning bodyA.mPairs from its end
inCollision_lastMatch(lists, objects, bodyA, bodyB, hasCb) ==
  InCollisionLoop([i \in 1..Len(lists[bodyA]) |->
                     lists[bodyA][Len(lists[bodyA]) + 1 - i]],
                  objects, bodyA, bodyB, hasCb, 1)

\* Arcade.inCollision(bodyA, bodyB, cb); hasCb tells whether cb was supplied
inCollision(lists, objects, bodyA, bodyB, hasCb) ==
  InCollisionLoop(lists[bodyA], objects, bodyA, bodyB, hasCb, 1)

(***************************************************************************)
(* The bounds manager, as functions of the world record w and the bounds   *)
(* record b.  The geometry of the four walls is a function of the          *)
(* rectangle they were set from and of the constant thickness, so the      *)
(* model keeps that rectangle; as constructed the walls are empty boxes.   *)
(***************************************************************************)
\* body.gameObject.mCollidersCache of every body: a scene body reads the
\* cache of its own node, the bounds body the cache of the node it was
\* attached to
Caches(cache, gameObject, nodes) ==
  [b \in AllBodies |->
     IF b = mBoundsBody
       THEN IF gameObject = Null THEN <<>> ELSE nodes[gameObject]
       ELSE cache[b]]

\* Black.stage.bounds
StageBounds == <<0, 0, 4, 4>>

\* parent.addComponent(mBoundsBody): the body refers back to the node and
\* the world is told that a body component was added
AddBoundsBody(w, b, cache, parent) ==
  LET b1 == [b EXCEPT !.boundsGameObject = parent]
  IN [w |-> __addBody(w, Caches(cache, b1.boundsGameObject, b1.nodeCache),
                      mBoundsBody),
      b |-> b1]

\* parent.removeComponent(mBoundsBody): the world is told that a body
\* component was removed
RemoveBoundsBody(w, b, cache, parent) ==
  [w |-> __removeBody(w, Caches(cache, b.boundsGameObject, b.nodeCache),
                      mBoundsBody),
   b |-> b]

\* Arcade.__initBounds: the walls frame the stage and are attached to it.
\* The stage carries no RigidBody at this point (mBoundsInited is false, so
\* the bounds body was never attached), and __addCollider returns at its
\* guard for each wall.
__initBounds(b) ==
  [b EXCEPT !.wallsRect = StageBounds,
            !.mBoundsParent = "stage",
            !.mBoundsInited = TRUE,
            !.nodeCache["stage"] = @ \o Walls]

\* enableBounds computing the default geometry on every call
enableBounds_alwaysInit(w, b, cache) ==
  LET b1 == __initBounds(b)
  IN AddBoundsBody(w, b1, cache, b1.mBoundsParent)

\* Arcade.enableBounds
enableBounds(w, b, cache) ==
  LET b1 == IF ~b.mBoundsInited THEN __initBounds(b) ELSE b
  IN AddBoundsBody(w, b1, cache, b1.mBoundsParent)

\* Arcade.disableBounds; mBoundsParent is null until the bounds are
\* initialized or set, and the call then raises a TypeError
disableBounds(w, b, cache) ==
  IF b.mBoundsParent = Null
    THEN [w |-> w, b |-> b, throws |-> TRUE]
    ELSE LET r == RemoveBoundsBody(w, b, cache, b.mBoundsParent)
         IN [w |-> r.w, b |-> r.b, throws |-> FALSE]

\* Arcade.setBounds
setBounds(b, rect, parent) ==
  [b EXCEPT !.wallsRect = rect,
            !.mBoundsParent = parent,
            !.mBoundsInited = TRUE]

(***************************************************************************)
(* The message dispatchers.  ls is the mListeners of every dispatcher: the *)
(* empty sequence for null, or a sequence of one element, the function     *)
(* from the names the object has to the list of their bindings.  bs is the *)
(* MessageBinding objects by identity.                                     *)
(***************************************************************************)
\* the stage, a node of the stage and a game object of that node
Dispatchers == {"stage", "layer", "sprite"}

\* the node a game object hangs on while it is attached
TreeParent(d) ==
  CASE d = "sprite" -> "layer"
    [] d = "layer" -> "stage"
    [] OTHER -> Null

\* message names, as the sequence of their characters
Names == {<<"m">>}

\* callback functions that only take the message
Callbacks == {"f", "g"}

\* callback functions that act on it: cancel calls message.cancel(), detach
\* takes the owner of its binding off its parent
ActingCallbacks == {"cancel", "detach"}

\* path patterns of overheard listeners
Patterns == {<<"sprite">>, <<"*">>}

\* `this.parent`
ParentOf(d, attached) == IF d \in attached THEN TreeParent(d) ELSE Null

\* `this.stage`: the stage is its own stage, a game object has one while
\* its chain of parents ends at the stage
RECURSIVE StageOf(_, _)
StageOf(d, attached) ==
  IF d = "stage" THEN "stage"
  ELSE IF d \in attached THEN StageOf(TreeParent(d), attached)
  ELSE Null

\* `this.path` of a game object: the empty sequence is null, otherwise the
\* sequence holds the path
PathOf(d) == <<<<d>>>>

\* BindingType.REGULAR
REGULAR == <<"regular">>

\* new MessageBinding(owner, name, callback, isOnce, context, type,
\* pathPattern): type and pathPattern are <<>> when the caller leaves the
\* argument out and <<value>> otherwise; a null pathPattern is <<>>
MessageBinding(owner, name, callback, isOnce, type, pathPattern) ==
  [owner |-> owner, name |-> name, callback |-> callback, isOnce |-> isOnce,
   pathPattern |-> pathPattern,
   type |-> IF type = <<>> THEN REGULAR ELSE type[1]]

\* MessageDispatcher.__on; name is the argument as written, as a sequence
\* of characters.  With an `@` the binding goes to the global table: the
\* constructor is called with the path pattern as its sixth argument, which
\* is `type`.  The result is the binding for a plain name and nothing (0)
\* for an overheard one.
__on(ls, bs, global, d, name, callback, isOnce) ==
  LET earIndex == IndexOf(name, "@")
      binding == Len(bs) + 1
  IN IF earIndex # -1
       THEN
         LET messageName == SubSeq(name, 1, earIndex)
             pathPattern == SubSeq(name, earIndex + 2, Len(name))
             g1 == IF messageName \notin DOMAIN global
                     THEN [k \in (DOMAIN global) \cup {messageName} |->
                             IF k = messageName THEN <<>> ELSE global[k]]
                     ELSE global
         IN [ls |-> ls,
             bs |-> Append(bs, MessageBinding(d, messageName, callback, isOnce,
                                              <<pathPattern>>, <<>>)),
             global |-> [g1 EXCEPT ![messageName] = Append(@, binding)],
             binding |-> 0]
       ELSE
         LET l1 == IF ls[d] = <<>> THEN [ls EXCEPT ![d] = <<<<>>>>] ELSE ls
             l2 == IF name \notin DOMAIN l1[d][1]
                     THEN [l1 EXCEPT ![d][1] =
                             [k \in (DOMAIN l1[d][1]) \cup {name} |->
                                IF k = name THEN <<>> ELSE l1[d][1][k]]]
                     ELSE l1
         IN [ls |-> [l2 EXCEPT ![d][1][name] = Append(@, binding)],
             bs |-> Append(bs, MessageBinding(d, name, callback, isOnce,
                                              <<>>, <<>>)),
             global |-> global,
             binding |-> binding]

\* the bindings a dispatcher lists under a name
Listeners(ls, d, name) ==
  IF ls[d] = <<>> THEN <<>>
  ELSE IF name \notin DOMAIN ls[d][1] THEN <<>>
  ELSE ls[d][1][name]

\* MessageDispatcher.__off
__off(ls, bs, d, binding) ==
  IF ls[d] = <<>> THEN ls
  ELSE IF bs[binding].name \notin DOMAIN ls[d][1] THEN ls
  ELSE LET ix == IndexOf(ls[d][1][bs[binding].name], binding)
       IN IF ix = -1 THEN ls
          ELSE [ls EXCEPT ![d][1][bs[binding].name] = Splice(@, ix)]

\* the methods a MessageDispatcher has
Methods == {"on", "once", "post", "__on", "__off", "__invoke",
            "__invokeOverheard", "__postBubbles", "__draftMessage",
            "__checkPath"}

\* MessageDispatcher.__draftMessage: a pooled message, reset, with the name
\* and the type read from the argument
__draftMessage(name) ==
  IF Len(name) > 0 /\ name[1] = "~"
    THEN [name |-> Tail(name), type |-> "BUBBLE"]
    ELSE [name |-> name, type |-> "DIRECT"]

\* binding.callback.call(binding.context, message): st is the state of one
\* post, the listeners ls, the game objects that are attached, whether the
\* message is canceled, the bindings called so far and whether the post
\* has thrown
Call(st, bs, binding) ==
  LET st1 == [st EXCEPT !.calls = Append(@, binding)]
  IN CASE bs[binding].callback = "cancel" -> [st1 EXCEPT !.canceled = TRUE]
       [] bs[binding].callback = "detach" ->
            [st1 EXCEPT !.attached = @ \ {bs[binding].owner}]
       [] OTHER -> st1

\* the loop of MessageDispatcher.__invoke over the cloned bindings, from
\* position i: `this._off(binding)` is a call of a method the dispatcher
\* does not have and raises a TypeError
RECURSIVE InvokeLoop(_, _, _, _, _)
InvokeLoop(st, bs, d, cloned, i) ==
  IF i > Len(cloned) THEN st
  ELSE LET binding == cloned[i]
           st1 == Call(st, bs, binding)
           st2 == IF bs[binding].isOnce
                    THEN IF "_off" \in Methods
                           THEN [st1 EXCEPT !.ls = __off(@, bs, d, binding)]
                           ELSE [st1 EXCEPT !.throws = TRUE]
                    ELSE st1
       IN IF st2.throws \/ st2.canceled THEN st2
          ELSE InvokeLoop(st2, bs, d, cloned, i + 1)

\* MessageDispatcher.__invoke
__invoke(st, bs, d, name) ==
  IF st.canceled THEN st
  ELSE IF st.ls[d] = <<>> THEN st
  ELSE IF StageOf(d, st.attached) = Null /\ d # "stage" THEN st
  ELSE IF name \notin DOMAIN st.ls[d][1] THEN st
  ELSE IF Len(st.ls[d][1][name]) = 0 THEN st
  ELSE InvokeLoop(st, bs, d, st.ls[d][1][name], 1)

\* MessageDispatcher.__checkPath: "true", "false", or "throws" where
\* binding.glob, which is never set, would be called
__checkPath(path, binding) ==
  IF path = <<>> \/ binding.pathPattern = <<>> THEN "false"
  ELSE IF path[1] = binding.pathPattern[1] THEN "true"
  ELSE IF IndexOf(binding.pathPattern[1], "*") = -1 THEN "false"
  ELSE "throws"

\* the loop of MessageDispatcher.__invokeOverheard
RECURSIVE OverheardLoop(_, _, _, _, _)
OverheardLoop(st, bs, sender, cloned, i) ==
  IF i > Len(cloned) THEN st
  ELSE LET binding == cloned[i]
           check == __checkPath(PathOf(sender), bs[binding])
       IN IF StageOf(bs[binding].owner, st.attached) = Null
            THEN OverheardLoop(st, bs, sender, cloned, i + 1)
          ELSE IF check = "throws" THEN [st EXCEPT !.throws = TRUE]
          ELSE IF check = "false"
            THEN OverheardLoop(st, bs, sender, cloned, i + 1)
          ELSE LET st1 == Call(st, bs, binding)
                   st2 == IF bs[binding].isOnce
                            THEN IF "_off" \in Methods
                                   THEN [st1 EXCEPT
                                           !.ls = __off(@, bs, sender, binding)]
                                   ELSE [st1 EXCEPT !.throws = TRUE]
                            ELSE st1
               IN IF st2.throws \/ st2.canceled THEN st2
                  ELSE OverheardLoop(st2, bs, sender, cloned, i + 1)

\* MessageDispatcher.__invokeOverheard, which a post that has thrown or
\* whose message is canceled does not reach
__invokeOverheard(st, bs, global, sender, name) ==
  IF st.throws \/ st.canceled THEN st
  ELSE IF name \notin DOMAIN global THEN st
  ELSE IF Len(global[name]) = 0 THEN st
  ELSE OverheardLoop(st, bs, sender, global[name], 1)

\* MessageDispatcher.__postBubbles, lines 247-253: the dispatcher and its
\* ancestors, as they are when the post starts
RECURSIVE Chain(_, _)
Chain(d, attached) ==
  IF ParentOf(d, attached) = Null THEN <<d>>
  ELSE <<d>> \o Chain(ParentOf(d, attached), attached)

\* MessageDispatcher.__postBubbles, lines 255-261
RECURSIVE BubbleLoop(_, _, _, _, _)
BubbleLoop(st, bs, list, name, i) ==
  IF i > Len(list) \/ st.throws \/ st.canceled THEN st
  ELSE BubbleLoop(__invoke(st, bs, list[i], name), bs, list, name, i + 1)

\* MessageDispatcher.__postBubbles
__postBubbles(st, bs, d, name) ==
  BubbleLoop(st, bs, Chain(d, st.attached), name, 1)

\* MessageDispatcher.post, line 61: Message.pool.release(message), which an
\* exception skips; released counts the calls
release(st) ==
  [ls |-> st.ls, attached |-> st.attached, canceled |-> st.canceled,
   calls |-> st.calls, throws |-> st.throws,
   released |-> IF st.throws THEN 0 ELSE 1]

\* MessageDispatcher.post
post(ls, bs, global, attached, d, name) ==
  LET message == __draftMessage(name)
      st0 == [ls |-> ls, attached |-> attached, canceled |-> FALSE,
              calls |-> <<>>, throws |-> FALSE]
  IN release(__invokeOverheard(
               IF message.type = "DIRECT"
                 THEN __invoke(st0, bs, d, message.name)
                 ELSE __postBubbles(st0, bs, d, message.name),
               bs, global, d, message.name))

(***************************************************************************)
(* The texture units of the WebGL driver.  A table of units is the         *)
(* sequence of the textures of units 0, 1, ...; bindTexture gives back the *)
(* tables and the index it returns, <<>> when it returns nothing.          *)
(***************************************************************************)
\* the textures the renderer draws with
Textures == {"t1", "t2", "t3", "t4"}

\* bindTexture that takes the first unit when no unit is free in the bound
\* table, whether or not the batch uses it
bindTexture_firstUnit(bound, batch, texture) ==
  LET found == IndexOf(bound, texture)
      free == IF IndexOf(bound, Null) = -1
                THEN IF Len(bound) = 0 THEN -1 ELSE 0
                ELSE IndexOf(bound, Null)
      index == IF found = -1 THEN free ELSE found
  IN IF index = -1
       THEN [bound |-> bound, batch |-> batch, index |-> <<>>]
       ELSE [bound |-> [bound EXCEPT ![index + 1] = texture],
             batch |-> [batch EXCEPT ![index + 1] = texture],
             index |-> <<index>>]

\* WebGLTextures.bindTexture
bindTexture(bound, batch, texture) ==
  LET found == IndexOf(bound, texture)
      free == IF IndexOf(bound, Null) = -1
                THEN IndexOf(batch, Null)
                ELSE IndexOf(bound, Null)
      index == IF found = -1 THEN free ELSE found
  IN IF index = -1
       THEN [bound |-> bound, batch |-> batch, index |-> <<>>]
       ELSE [bound |-> [bound EXCEPT ![index + 1] = texture],
             batch |-> [batch EXCEPT ![index + 1] = texture],
             index |-> <<index>>]

\* WebGLTextures.endBatch
endBatch(batch) == [i \in 1..Len(batch) |-> Null]

(***************************************************************************)
(* State after construction.                                               *)
(***************************************************************************)
NoCall == [op |-> "none", body |-> Null, other |-> Null, wasActive |-> FALSE,
           threw |-> FALSE, calls |-> <<>>, result |-> FALSE, hasCb |-> FALSE,
           forced |-> {}, cleared |-> {}, canceled |-> FALSE, released |-> 0,
           name |-> <<>>]

\* the colliders the nodes carry when the world is constructed
InitialCaches ==
  {[b \in Bodies |-> IF b = "b1" THEN c1 ELSE IF b = "b2" THEN c2 ELSE <<>>] :
     c1 \in {<<>>, <<"c1">>, <<"c1", "k1">>}, c2 \in {<<>>, <<"c2">>}}

Init ==
  /\ mBodies = <<>>
  /\ mPairs = <<>>
  /\ mPairsHash = <<>>
  /\ bodyPairs = [b \in AllBodies |-> <<>>]
  /\ heap = <<>>
  /\ pool = [k \in PairKinds |-> <<>>]
  /\ mCollidersCache \in InitialCaches
  /\ mContacts = <<>>
  /\ mPosition = [b \in Bodies |-> 0]
  /\ mVelocity = [b \in Bodies |-> 0]
  /\ mForce = [b \in Bodies |-> 0]
  /\ gravity = 0
  /\ iterations = 1
  /\ mBoundsParent = Null
  /\ mBoundsInited = FALSE
  /\ wallsRect = <<0, 0, 0, 0>>
  /\ boundsGameObject = Null
  /\ nodeCache = [n \in BoundsParents |-> <<>>]
  /\ mListeners = [d \in Dispatchers |-> <<>>]
  /\ bindings = <<>>
  /\ mOverheardHandlers = <<>>
  /\ onStage = {}
  /\ invocations = <<>>
  /\ mBoundTextures = [i \in 1..MAX_TEXTURE_IMAGE_UNITS |-> Null]
  /\ mBatchTextures = [i \in 1..MAX_TEXTURE_IMAGE_UNITS |-> Null]
  /\ batched = {}
  /\ last = NoCall
  /\ events = 0

\* every handler call counts against the exploration bound
Tick ==
  /\ events < MaxEvents
  /\ events' = events + 1

SetWorld(w) ==
  /\ mBodies' = w.mBodies
  /\ mPairs' = w.mPairs
  /\ mPairsHash' = w.mPairsHash
  /\ bodyPairs' = w.bodyPairs
  /\ heap' = w.heap
  /\ pool' = w.pool

physVars == <<mContacts, mPosition, mVelocity, mForce, gravity, iterations>>

boundsVars == <<mBoundsParent, mBoundsInited, wallsRect, boundsGameObject,
                nodeCache>>

messageVars == <<mListeners, bindings, mOverheardHandlers, onStage,
                 invocations>>

textureVars == <<mBoundTextures, mBatchTextures, batched>>

arcadeVars == <<mBodies, mPairs, mPairsHash, bodyPairs, heap, pool,
                mCollidersCache, physVars, boundsVars>>

(***************************************************************************)
(* Scene-graph events.                                                     *)
(***************************************************************************)
\* onComponentAdded(child, body) / onChildrenAdded: a body enters the world
BodyAdded(body) ==
  LET w == __addBody(World, Caches(mCollidersCache, boundsGameObject, nodeCache),
                     body)
  IN /\ Tick
     /\ SetWorld(w)
     /\ last' = [NoCall EXCEPT !.op = "addBody", !.body = body,
                   !.wasActive = body \in Range(mBodies)]
     /\ UNCHANGED <<mCollidersCache, physVars, boundsVars>>
     /\ UNCHANGED messageVars
     /\ UNCHANGED textureVars

\* onComponentRemoved(child, body) / onChildrenRemoved: a body leaves
BodyRemoved(body) ==
  LET w == __removeBody(World,
                        Caches(mCollidersCache, boundsGameObject, nodeCache),
                        body)
  IN /\ Tick
     /\ SetWorld(w)
     /\ last' = [NoCall EXCEPT !.op = "removeBody", !.body = body,
                   !.wasActive = body \in Range(mBodies)]
     /\ UNCHANGED <<mCollidersCache, physVars, boundsVars>>
     /\ UNCHANGED messageVars
     /\ UNCHANGED textureVars

\* GameObject.addComponent(collider): the node caches the collider, then the
\* world is told
ShapeAdded(s) ==
  LET child == Home(s)
      cache == [mCollidersCache EXCEPT ![child] = Append(@, s)]
      r == onColliderAdded(World, Caches(cache, boundsGameObject, nodeCache),
                           child, s)
  IN /\ s \notin Range(mCollidersCache[child])
     /\ Tick
     /\ mCollidersCache' = cache
     /\ SetWorld(r.w)
     /\ last' = [NoCall EXCEPT !.op = "addShape", !.body = child, !.other = s,
                   !.wasActive = child \in Range(mBodies), !.threw = r.throws]
     /\ UNCHANGED <<physVars, boundsVars>>
     /\ UNCHANGED messageVars
     /\ UNCHANGED textureVars

\* GameObject.removeComponent(collider): the node drops the collider from its
\* cache, then the world is told
ShapeRemoved(s) ==
  LET child == Home(s)
      cache == [mCollidersCache EXCEPT ![child] = Splice(@, IndexOf(@, s))]
      r == onColliderRemoved(World, Caches(cache, boundsGameObject, nodeCache),
                             child, s)
  IN /\ s \in Range(mCollidersCache[child])
     /\ Tick
     /\ mCollidersCache' = cache
     /\ SetWorld(r.w)
     /\ last' = [NoCall EXCEPT !.op = "removeShape", !.body = child, !.other = s,
                   !.wasActive = child \in Range(mBodies), !.threw = r.throws]
     /\ UNCHANGED <<physVars, boundsVars>>
     /\ UNCHANGED messageVars
     /\ UNCHANGED textureVars

\* positions a caller writes into a body
Positions == {0, 1, 2}

\* the time steps the clock delivers
TimeSteps == {1}

\* body.x = x: the caller places a body
MoveBody(body, x) ==
  /\ Tick
  /\ mPosition[body] # x
  /\ mPosition' = [mPosition EXCEPT ![body] = x]
  /\ last' = [NoCall EXCEPT !.op = "move", !.body = body]
  /\ UNCHANGED <<mBodies, mPairs, mPairsHash, bodyPairs, heap, pool,
                 mCollidersCache, mContacts, mVelocity, mForce, gravity,
                 iterations>>
  /\ UNCHANGED boundsVars
  /\ UNCHANGED messageVars
  /\ UNCHANGED textureVars

\* the fixed-update tick
FixedUpdate(dt) ==
  LET ph == onFixedUpdate([heap |-> heap, contacts |-> mContacts,
                           pos |-> mPosition, vel |-> mVelocity,
                           force |-> mForce, log |-> <<>>],
                          mBodies, mPairs, iterations, gravity, dt)
  IN /\ Tick
     /\ heap' = ph.heap
     /\ mContacts' = ph.contacts
     /\ mPosition' = ph.pos
     /\ mVelocity' = ph.vel
     /\ mForce' = ph.force
     /\ last' = [NoCall EXCEPT
                   !.op = "step",
                   !.calls = ph.log,
                   !.forced = {b \in Range(mBodies) : mForce[b] # 0},
                   !.cleared = {id \in Range(mPairs) :
                                  /\ heap[id].mNormalImpulse # 0
                                  /\ ~ph.heap[id].mInCollision}]
     /\ UNCHANGED <<mBodies, mPairs, mPairsHash, bodyPairs, pool,
                    mCollidersCache, gravity, iterations>>
     /\ UNCHANGED boundsVars
     /\ UNCHANGED messageVars
     /\ UNCHANGED textureVars

\* forces a caller applies to a body
Forces == {2}

\* body.applyForce(f): the force accumulates until the next step clears it
ApplyForce(body, f) ==
  /\ Tick
  /\ mForce' = [mForce EXCEPT ![body] = @ + f]
  /\ last' = [NoCall EXCEPT !.op = "applyForce", !.body = body]
  /\ UNCHANGED <<mBodies, mPairs, mPairsHash, bodyPairs, heap, pool,
                 mCollidersCache, mContacts, mPosition, mVelocity, gravity,
                 iterations>>
  /\ UNCHANGED boundsVars
  /\ UNCHANGED messageVars
  /\ UNCHANGED textureVars

\* values a caller writes into the gravity tunable
Gravities == {0, 1}

\* world.gravity = g
SetGravity(g) ==
  /\ Tick
  /\ gravity # g
  /\ gravity' = g
  /\ last' = [NoCall EXCEPT !.op = "setGravity"]
  /\ UNCHANGED <<mBodies, mPairs, mPairsHash, bodyPairs, heap, pool,
                 mCollidersCache, mContacts, mPosition, mVelocity, mForce,
                 iterations>>
  /\ UNCHANGED boundsVars
  /\ UNCHANGED messageVars
  /\ UNCHANGED textureVars

\* values a caller writes into the iterations tunable
IterationCounts == {-1, 0, 1, 2}

\* world.iterations = n: a plain field, the write checks nothing
SetIterations(n) ==
  /\ Tick
  /\ iterations # n
  /\ iterations' = n
  /\ last' = [NoCall EXCEPT !.op = "setIterations"]
  /\ UNCHANGED <<mBodies, mPairs, mPairsHash, bodyPairs, heap, pool,
                 mCollidersCache, mContacts, mPosition, mVelocity, mForce,
                 gravity>>
  /\ UNCHANGED boundsVars
  /\ UNCHANGED messageVars
  /\ UNCHANGED textureVars

Bounds ==
  [mBoundsParent |-> mBoundsParent, mBoundsInited |-> mBoundsInited,
   wallsRect |-> wallsRect, boundsGameObject |-> boundsGameObject,
   nodeCache |-> nodeCache]

SetBoundsVars(b) ==
  /\ mBoundsParent' = b.mBoundsParent
  /\ mBoundsInited' = b.mBoundsInited
  /\ wallsRect' = b.wallsRect
  /\ boundsGameObject' = b.boundsGameObject
  /\ nodeCache' = b.nodeCache

\* world.enableBounds()
EnableBounds ==
  LET r == enableBounds(World, Bounds, mCollidersCache)
  IN /\ Tick
     /\ SetWorld(r.w)
     /\ SetBoundsVars(r.b)
     /\ last' = [NoCall EXCEPT !.op = "enableBounds", !.body = mBoundsBody,
                   !.wasActive = mBoundsBody \in Range(mBodies)]
     /\ UNCHANGED <<mCollidersCache, physVars>>
     /\ UNCHANGED messageVars
     /\ UNCHANGED textureVars

\* world.disableBounds()
DisableBounds ==
  LET r == disableBounds(World, Bounds, mCollidersCache)
  IN /\ Tick
     /\ SetWorld(r.w)
     /\ SetBoundsVars(r.b)
     /\ last' = [NoCall EXCEPT !.op = "disableBounds", !.body = mBoundsBody,
                   !.wasActive = mBoundsBody \in Range(mBodies),
                   !.threw = r.throws]
     /\ UNCHANGED <<mCollidersCache, physVars>>
     /\ UNCHANGED messageVars
     /\ UNCHANGED textureVars

\* rectangles a caller passes to setBounds
Rects == {<<1, 1, 2, 2>>}

\* setBounds attaching the bounds body to the new parent as well
SetBounds_attaching(rect, parent) ==
  LET r == AddBoundsBody(World, setBounds(Bounds, rect, parent),
                         mCollidersCache, parent)
  IN /\ Tick
     /\ SetWorld(r.w)
     /\ SetBoundsVars(r.b)
     /\ last' = [NoCall EXCEPT !.op = "setBounds", !.body = mBoundsBody,
                   !.other = parent,
                   !.wasActive = mBoundsBody \in Range(mBodies)]
     /\ UNCHANGED <<mCollidersCache, physVars>>
     /\ UNCHANGED messageVars
     /\ UNCHANGED textureVars

\* world.setBounds(x, y, width, height, parent)
SetBounds(rect, parent) ==
  /\ Tick
  /\ SetBoundsVars(setBounds(Bounds, rect, parent))
  /\ last' = [NoCall EXCEPT !.op = "setBounds", !.body = mBoundsBody,
                !.other = parent,
                !.wasActive = mBoundsBody \in Range(mBodies)]
  /\ UNCHANGED <<mBodies, mPairs, mPairsHash, bodyPairs, heap, pool,
                 mCollidersCache, physVars>>
  /\ UNCHANGED messageVars
  /\ UNCHANGED textureVars

\* dispatcher.on(name, cb)
On(d, name, cb) ==
  LET r == __on(mListeners, bindings, mOverheardHandlers, d, name, cb, FALSE)
  IN /\ Tick
     /\ mListeners' = r.ls
     /\ bindings' = r.bs
     /\ mOverheardHandlers' = r.global
     /\ last' = [NoCall EXCEPT !.op = "on", !.body = d, !.other = r.binding,
                   !.name = name]
     /\ UNCHANGED <<onStage, invocations, arcadeVars, textureVars>>

\* dispatcher.once(name, cb)
Once(d, name, cb) ==
  LET r == __on(mListeners, bindings, mOverheardHandlers, d, name, cb, TRUE)
  IN /\ Tick
     /\ mListeners' = r.ls
     /\ bindings' = r.bs
     /\ mOverheardHandlers' = r.global
     /\ last' = [NoCall EXCEPT !.op = "once", !.body = d, !.other = r.binding,
                   !.name = name]
     /\ UNCHANGED <<onStage, invocations, arcadeVars, textureVars>>

\* binding.off(), on a binding that on() or once() returned
Off(binding) ==
  /\ Tick
  /\ \A k \in DOMAIN mOverheardHandlers :
       binding \notin Range(mOverheardHandlers[k])
  /\ mListeners' = __off(mListeners, bindings, bindings[binding].owner, binding)
  /\ last' = [NoCall EXCEPT !.op = "off", !.body = bindings[binding].owner,
                !.other = binding]
  /\ UNCHANGED <<bindings, mOverheardHandlers, onStage, invocations,
                 arcadeVars, textureVars>>

\* the game object is added to its parent
AddedToStage(d) ==
  /\ Tick
  /\ d # "stage"
  /\ d \notin onStage
  /\ onStage' = onStage \cup {d}
  /\ last' = [NoCall EXCEPT !.op = "addedToStage", !.body = d]
  /\ UNCHANGED <<mListeners, bindings, mOverheardHandlers, invocations,
                 arcadeVars, textureVars>>

\* dispatcher.post(name)
Post(d, name) ==
  \E r \in {post(mListeners, bindings, mOverheardHandlers, onStage, d, name)} :
     /\ Tick
     /\ mListeners' = r.ls
     /\ onStage' = r.attached
     /\ invocations' = invocations \o r.calls
     /\ last' = [NoCall EXCEPT !.op = "post", !.body = d, !.other = name,
                   !.calls = r.calls, !.threw = r.throws,
                   !.canceled = r.canceled, !.released = r.released]
     /\ UNCHANGED <<bindings, mOverheardHandlers, arcadeVars, textureVars>>

\* a caller asks collisionInfo about two colliders of different active bodies
CollisionInfo(colliderA, colliderB) ==
  /\ Tick
  /\ Home(colliderA) # Home(colliderB)
  /\ Home(colliderA) \in Range(mBodies)
  /\ Home(colliderB) \in Range(mBodies)
  /\ last' = [NoCall EXCEPT !.op = "collisionInfo", !.body = colliderA,
                !.other = colliderB,
                !.calls = collisionInfo(mPairsHash, heap, colliderA, colliderB)]
  /\ UNCHANGED <<mBodies, mPairs, mPairsHash, bodyPairs, heap, pool,
                 mCollidersCache, physVars>>
  /\ UNCHANGED boundsVars
  /\ UNCHANGED messageVars
  /\ UNCHANGED textureVars

\* a caller asks inCollision about two bodies, with or without a callback
InCollision(bodyA, bodyB, hasCb) ==
  LET r == inCollision(bodyPairs, heap, bodyA, bodyB, hasCb)
  IN /\ Tick
     /\ bodyA # bodyB
     /\ last' = [NoCall EXCEPT !.op = "inCollision", !.body = bodyA,
                   !.other = bodyB, !.hasCb = hasCb, !.result = r.result,
                   !.calls = r.calls]
     /\ UNCHANGED <<mBodies, mPairs, mPairsHash, bodyPairs, heap, pool,
                    mCollidersCache, physVars>>
     /\ UNCHANGED boundsVars
     /\ UNCHANGED messageVars
     /\ UNCHANGED textureVars

Next ==
  \/ \E b \in Bodies : BodyAdded(b)
  \/ \E b \in Bodies : BodyRemoved(b)
  \/ \E s \in ExplicitShapes : ShapeAdded(s)
  \/ \E s \in ExplicitShapes : ShapeRemoved(s)

Spec == Init /\ [][Next]_vars

\* the registry events together with the step and the two collision queries
QueryBudget == events < MaxQueryEvents

NextQuery ==
  \/ \E b \in Bodies : QueryBudget /\ BodyAdded(b)
  \/ \E b \in Bodies : QueryBudget /\ BodyRemoved(b)
  \/ \E s \in ExplicitShapes : QueryBudget /\ ShapeAdded(s)
  \/ \E s \in ExplicitShapes : QueryBudget /\ ShapeRemoved(s)
  \/ \E b \in Bodies, x \in Positions : QueryBudget /\ MoveBody(b, x)
  \/ \E dt \in TimeSteps : QueryBudget /\ FixedUpdate(dt)
  \/ \E a, b \in Shapes : QueryBudget /\ CollisionInfo(a, b)
  \/ \E a, b \in Bodies, hasCb \in BOOLEAN :
       QueryBudget /\ InCollision(a, b, hasCb)

SpecQuery == Init /\ [][NextQuery]_vars

\* bodies entering the world, one of them placed by the caller, forces, the
\* tunables and the step
StepBudget == events < MaxStepEvents

NextStep ==
  \/ \E b \in Bodies : StepBudget /\ BodyAdded(b)
  \/ \E x \in Positions : StepBudget /\ MoveBody("b1", x)
  \/ \E b \in Bodies, f \in Forces : StepBudget /\ ApplyForce(b, f)
  \/ \E g \in Gravities : StepBudget /\ SetGravity(g)
  \/ \E n \in IterationCounts : StepBudget /\ SetIterations(n)
  \/ \E dt \in TimeSteps : StepBudget /\ FixedUpdate(dt)

SpecStep == Init /\ [][NextStep]_vars

\* bodies entering the world while the bounds are set, enabled and disabled
BoundsBudget == events < MaxBoundsEvents

NextBounds ==
  \/ \E b \in Bodies : BoundsBudget /\ BodyAdded(b)
  \/ BoundsBudget /\ EnableBounds
  \/ BoundsBudget /\ DisableBounds
  \/ \E rect \in Rects, parent \in BoundsParents :
       BoundsBudget /\ SetBounds(rect, parent)

SpecBounds == Init /\ [][NextBounds]_vars

\* listeners registered, removed and posted to, in a scene without colliders
MessageBudget == events < MaxMessageEvents

InitMessages == Init /\ mCollidersCache = [b \in Bodies |-> <<>>]

NextMessages ==
  \/ \E d \in Dispatchers, name \in Names, cb \in Callbacks :
       MessageBudget /\ On(d, name, cb)
  \/ \E d \in Dispatchers, name \in Names, cb \in Callbacks :
       MessageBudget /\ Once(d, name, cb)
  \/ \E binding \in 1..Len(bindings) : MessageBudget /\ Off(binding)
  \/ \E d \in Dispatchers : MessageBudget /\ AddedToStage(d)
  \/ \E d \in Dispatchers, name \in Names : MessageBudget /\ Post(d, name)

SpecMessages == InitMessages /\ [][NextMessages]_vars

\* the routing of a post: bubbling, cancellation and overheard listeners
RoutingBudget == events < MaxRoutingEvents

\* the dispatchers that listen and the ones that post in the routing runs
Owners == {"stage", "layer"}

Senders == {"layer", "sprite"}

NextRouting ==
  \/ \E d \in Owners, name \in Names, cb \in {"f"} \cup ActingCallbacks :
       RoutingBudget /\ On(d, name, cb)
  \/ \E name \in Names, pattern \in Patterns :
       RoutingBudget /\ On("stage", name \o <<"@">> \o pattern, "f")
  \/ \E name \in Names, cb \in {"f", "cancel"} :
       RoutingBudget /\ Once("layer", name, cb)
  \/ \E d \in Dispatchers : RoutingBudget /\ AddedToStage(d)
  \/ \E d \in Senders, name \in Names :
       RoutingBudget /\ Post(d, name)
  \/ \E d \in Senders, name \in Names :
       RoutingBudget /\ Post(d, <<"~">> \o name)

SpecRouting == InitMessages /\ [][NextRouting]_vars

\* the renderer binds textures and ends batches, in a scene without colliders
TextureBudget == events < MaxTextureEvents

\* textures.bindTexture(texture)
BindTexture(texture) ==
  \E r \in {bindTexture(mBoundTextures, mBatchTextures, texture)} :
     /\ Tick
     /\ mBoundTextures' = r.bound
     /\ mBatchTextures' = r.batch
     /\ batched' = IF r.index = <<>> THEN batched ELSE batched \cup {texture}
     /\ last' = [NoCall EXCEPT !.op = "bindTexture", !.body = texture,
                   !.other = r.index]
     /\ UNCHANGED <<arcadeVars, messageVars>>

\* textures.endBatch()
EndBatch ==
  /\ Tick
  /\ mBatchTextures' = endBatch(mBatchTextures)
  /\ batched' = {}
  /\ last' = [NoCall EXCEPT !.op = "endBatch"]
  /\ UNCHANGED <<mBoundTextures, arcadeVars, messageVars>>

NextTextures ==
  \/ \E texture \in Textures : TextureBudget /\ BindTexture(texture)
  \/ TextureBudget /\ EndBatch

SpecTextures == InitMessages /\ [][NextTextures]_vars

(***************************************************************************)
(* Vocabulary of the registry properties.                                  *)
(***************************************************************************)
\* the Pair object at position i of the flat pair list
PairAt(i) == heap[mPairs[i]]

\* the unordered shape pair of the Pair at position i of the flat pair list
ShapesAt(i) == {PairAt(i).a, PairAt(i).b}

\* positions of the flat pair list holding a Pair for the unordered pair {s, t}
PairsFor(s, t) == {i \in 1..Len(mPairs) : ShapesAt(i) = {s, t}}

\* the effective shapes of a body: its explicit shapes or its default shape
EffectiveShapes(body) == Range(CollidersOf(mCollidersCache, body))

Active == Range(mBodies)

\* C1: the flat pair list holds at most one Pair per unordered pair of shapes
C1_PairUniqueness ==
  \A i, j \in 1..Len(mPairs) : ShapesAt(i) = ShapesAt(j) => i = j

\* C2: every maintained Pair has bodyA different from bodyB, and its two
\* shapes belong to different bodies
C2_NoSelfPairs ==
  \A i \in 1..Len(mPairs) :
    /\ PairAt(i).bodyA # PairAt(i).bodyB
    /\ Home(PairAt(i).a) # Home(PairAt(i).b)

\* C2 witness: a collider was attached to an active body that already has one,
\* while another body is active, and pairs are maintained
C2_Witness ==
  /\ last.op = "addShape"
  /\ last.wasActive
  /\ Len(mCollidersCache[last.body]) = 2
  /\ Cardinality(Active) >= 2
  /\ Len(mPairs) >= 2

(***************************************************************************)
(* Properties of one handler call, relating the state before the call      *)
(* (unprimed) to the state after it (primed).  A step with events' # events *)
(* is one handler call and last' names it.                                 *)
(***************************************************************************)
Called(op) == events' # events /\ last'.op = op

\* pair identities appended to the flat pair list by the call
NewPairs == {mPairs'[i] : i \in (Len(mPairs) + 1)..Len(mPairs')}

\* C3: after a body that was not active is added, there is a Pair for every
\* combination of one of its effective shapes with an effective shape of
\* another active body, the body is appended to the active-body list, and
\* every pair the call created is in both its bodies' pair lists and is the
\* hash entry of its shape pair
C3_AddBodyPost(body) ==
  /\ \A s \in EffectiveShapes(body) : \A o \in Active \ {body} :
       \A t \in EffectiveShapes(o) :
         \E i \in 1..Len(mPairs') : {heap'[mPairs'[i]].a, heap'[mPairs'[i]].b} = {s, t}
  /\ mBodies' = Append(mBodies, body)
  /\ SubSeq(mPairs', 1, Len(mPairs)) = mPairs
  /\ \A p \in NewPairs :
       /\ p \in Range(bodyPairs'[heap'[p].bodyA])
       /\ p \in Range(bodyPairs'[heap'[p].bodyB])
       /\ PairId(heap'[p].a, heap'[p].b) \in DOMAIN mPairsHash'
       /\ mPairsHash'[PairId(heap'[p].a, heap'[p].b)] = p

C3_AddBodyCompleteness ==
  [][(Called("addBody") /\ ~last'.wasActive) => C3_AddBodyPost(last'.body)]_vars

\* the Pair object p, after the call, has one of the shapes S on a side
TouchesAfter(p, S) == heap'[p].a \in S \/ heap'[p].b \in S

\* the Pair object p, before the call, has one of the shapes S on a side
TouchesBefore(p, S) == heap[p].a \in S \/ heap[p].b \in S

\* positions of the flat pair list, after the call, holding a Pair for {s, t}
PairsForAfter(s, t) ==
  {i \in 1..Len(mPairs') : {heap'[mPairs'[i]].a, heap'[mPairs'[i]].b} = {s, t}}

\* C4: after an active body is removed no Pair touching one of its shapes is
\* left in the flat pair list, the hash index or a body's pair list, its own
\* pair list is empty, it is not in the active-body list, and the pairs
\* between other bodies are as they were
C4_RemoveBodyPost(body) ==
  LET S == EffectiveShapes(body)
  IN /\ \A i \in 1..Len(mPairs') : ~TouchesAfter(mPairs'[i], S)
     /\ \A k \in DOMAIN mPairsHash' :
          k \cap S = {} /\ ~TouchesAfter(mPairsHash'[k], S)
     /\ \A b \in Bodies : \A p \in Range(bodyPairs'[b]) : ~TouchesAfter(p, S)
     /\ bodyPairs'[body] = <<>>
     /\ body \notin Range(mBodies')
     /\ mPairs' = SelectSeq(mPairs, LAMBDA p : ~TouchesBefore(p, S))
     /\ \A p \in Range(mPairs') : heap'[p] = heap[p]
     /\ \A b \in Bodies \ {body} :
          bodyPairs'[b] = SelectSeq(bodyPairs[b], LAMBDA p : ~TouchesBefore(p, S))

C4_RemoveBodyEffect ==
  [][(Called("removeBody") /\ last'.wasActive) => C4_RemoveBodyPost(last'.body)]_vars

\* C5: removing a body that is not tracked changes neither the active-body
\* list, nor the flat pair list, nor the hash index, nor a body's pair list
C5_RemoveUntrackedNoOp ==
  [][(Called("removeBody") /\ ~last'.wasActive) =>
       UNCHANGED <<mBodies, mPairs, mPairsHash, bodyPairs>>]_vars

\* the registry invariants C6 names, over given values of the registry
BodyListedOnce(bodies, body) ==
  Cardinality({i \in 1..Len(bodies) : bodies[i] = body}) <= 1

NoDuplicatePair(pairs, objects) ==
  \A i, j \in 1..Len(pairs) :
    {objects[pairs[i]].a, objects[pairs[i]].b} =
      {objects[pairs[j]].a, objects[pairs[j]].b} => i = j

PairListsMatch(pairs, objects, lists) ==
  \A b \in Bodies :
    /\ Range(lists[b]) =
         {p \in Range(pairs) : objects[p].bodyA = b \/ objects[p].bodyB = b}
    /\ \A i, j \in 1..Len(lists[b]) : lists[b][i] = lists[b][j] => i = j

\* C6: adding a body that is already active changes nothing, so that the
\* body is listed once, no unordered shape pair has two Pairs and every
\* body's pair list is the set of maintained pairs touching it
C6_AddActivePost(body) ==
  /\ UNCHANGED <<mBodies, mPairs, mPairsHash, bodyPairs>>
  /\ BodyListedOnce(mBodies, body) => BodyListedOnce(mBodies', body)
  /\ NoDuplicatePair(mPairs, heap) => NoDuplicatePair(mPairs', heap')
  /\ PairListsMatch(mPairs, heap, bodyPairs) =>
       PairListsMatch(mPairs', heap', bodyPairs')

C6_AddActiveNoOp ==
  [][(Called("addBody") /\ last'.wasActive) => C6_AddActivePost(last'.body)]_vars

\* C7: when the first explicit shape is attached to an active body, no Pair
\* with the body's default shape is left and there is exactly one Pair
\* between the new shape and every effective shape of every other active
\* body; a further explicit shape only adds pairs, all of them for that shape
C7_AddShapePost(body, s) ==
  /\ Len(mCollidersCache'[body]) = 1 =>
       /\ \A i \in 1..Len(mPairs') : ~TouchesAfter(mPairs'[i], {mCollider(body)})
       /\ \A o \in Active \ {body} : \A t \in EffectiveShapes(o) :
            Cardinality(PairsForAfter(s, t)) = 1
  /\ Len(mCollidersCache'[body]) >= 2 =>
       /\ SubSeq(mPairs', 1, Len(mPairs)) = mPairs
       /\ \A p \in NewPairs : TouchesAfter(p, {s})
       /\ \A o \in Active \ {body} : \A t \in EffectiveShapes(o) :
            \E i \in (Len(mPairs) + 1)..Len(mPairs') : i \in PairsForAfter(s, t)

C7_FirstShapeReplacesDefault ==
  [][(Called("addShape") /\ last'.wasActive) =>
       C7_AddShapePost(last'.body, last'.other)]_vars

\* C8: when an explicit shape of an active body is detached, no Pair touching
\* it is left, and when that was the body's last explicit shape there is
\* exactly one Pair between the body's default shape and every effective
\* shape of every other active body
C8_RemoveShapePost(body, s) ==
  /\ \A i \in 1..Len(mPairs') : ~TouchesAfter(mPairs'[i], {s})
  /\ Len(mCollidersCache'[body]) = 0 =>
       \A o \in Active \ {body} : \A t \in EffectiveShapes(o) :
         Cardinality(PairsForAfter(mCollider(body), t)) = 1

C8_LastShapeRestoresDefault ==
  [][(Called("removeShape") /\ last'.wasActive) =>
       C8_RemoveShapePost(last'.body, last'.other)]_vars

\* C9: the kind of every maintained Pair follows the kinds of its shapes, a
\* BoxToCircle pair has the box on side A and the circle on side B, and
\* bodyA owns shape A and bodyB owns shape B
C9_KindAndOrder ==
  \A i \in 1..Len(mPairs) :
    LET p == PairAt(i)
    IN /\ p.kind = (IF IsBox(p.a) /\ IsBox(p.b) THEN "BoxToBox"
                    ELSE IF ~IsBox(p.a) /\ ~IsBox(p.b) THEN "CircleToCircle"
                    ELSE "BoxToCircle")
       /\ p.kind = "BoxToCircle" => IsBox(p.a) /\ ~IsBox(p.b)
       /\ p.bodyA = Home(p.a)
       /\ p.bodyB = Home(p.b)

\* C9 witness: pairs of all three kinds are maintained, and a circle attached
\* to an active body was paired with the boxes of the other bodies and stands
\* on side B of those pairs
C9_Witness ==
  /\ last.op = "addShape"
  /\ last.wasActive
  /\ ~IsBox(last.other)
  /\ \E i \in 1..Len(mPairs) :
       PairAt(i).kind = "BoxToCircle" /\ PairAt(i).b = last.other
         /\ PairAt(i).bodyB = last.body
  /\ \E i \in 1..Len(mPairs) : PairAt(i).kind = "BoxToBox"
  /\ \E i \in 1..Len(mPairs) : PairAt(i).kind = "CircleToCircle"

(***************************************************************************)
(* The collisionInfo query.                                                *)
(***************************************************************************)
\* C10: collisionInfo(A, B, cb) for shapes of different active bodies invokes
\* cb exactly once, with the overlap and the normal oriented from A to B of
\* the Pair the hash index holds for {A, B}, when that Pair is in collision,
\* and does not invoke cb when there is no such Pair or it is not in collision
C10_CollisionInfoLookup ==
  last.op = "collisionInfo" =>
    LET A == last.body
        B == last.other
        key == PairId(A, B)
    IN IF key \in DOMAIN mPairsHash /\ heap[mPairsHash[key]].mInCollision
         THEN LET pair == heap[mPairsHash[key]]
              IN last.calls =
                   <<[normal |-> IF pair.a = A THEN pair.mNormal
                                 ELSE 0 - pair.mNormal,
                      overlap |-> pair.mOverlap]>>
         ELSE last.calls = <<>>

\* C11: in any state where the Pair the hash index holds for shapes A and B
\* is in collision, collisionInfo(A, B, cb) and collisionInfo(B, A, cb) both
\* invoke their callback, with the same overlap and with normals that are
\* exact negations of each other
C11_CollisionInfoSymmetry ==
  \A A, B \in Shapes :
    (/\ A # B
     /\ PairId(A, B) \in DOMAIN mPairsHash
     /\ heap[mPairsHash[PairId(A, B)]].mInCollision) =>
      LET ab == collisionInfo(mPairsHash, heap, A, B)
          ba == collisionInfo(mPairsHash, heap, B, A)
      IN /\ Len(ab) = 1
         /\ Len(ba) = 1
         /\ ab[1].overlap = ba[1].overlap
         /\ ab[1].normal = 0 - ba[1].normal

(***************************************************************************)
(* The inCollision query.                                                  *)
(***************************************************************************)
\* the Pair object p connects bodies A and B, in either internal order
Connects(p, A, B) ==
  \/ p.bodyA = A /\ p.bodyB = B
  \/ p.bodyA = B /\ p.bodyB = A

\* C12: inCollision(A, B) returns true if and only if some maintained Pair
\* connects A and B, in either order, with its in-collision flag set; so
\* inCollision(A, B) and inCollision(B, A) return the same value, and both
\* return false when either body has just been removed from the world
C12_InCollisionResult ==
  \A A, B \in Bodies : A # B =>
    LET ab == inCollision(bodyPairs, heap, A, B, FALSE).result
        ba == inCollision(bodyPairs, heap, B, A, FALSE).result
    IN /\ ab <=> \E i \in 1..Len(mPairs) :
                   Connects(PairAt(i), A, B) /\ PairAt(i).mInCollision
       /\ ab <=> ba
       /\ (last.op = "removeBody" /\ last.body \in {A, B}) => ~ab

\* positions of body A's pair list holding an in-collision Pair that connects
\* A and B
Hits(A, B) ==
  {i \in 1..Len(bodyPairs[A]) :
     heap[bodyPairs[A][i]].mInCollision /\ Connects(heap[bodyPairs[A][i]], A, B)}

\* C13: inCollision with a callback invokes it exactly once if it returns
\* true and never if it returns false; the invocation is for the first
\* in-collision Pair of bodyA's pair list that connects the two bodies, with
\* the normal multiplied by +1 when the Pair's (bodyA, bodyB) is the caller's
\* order and by -1 when it is reversed, and with the overlap unchanged
C13_InCollisionCallback ==
  (last.op = "inCollision" /\ last.hasCb) =>
    LET A == last.body
        B == last.other
    IN /\ Len(last.calls) = IF last.result THEN 1 ELSE 0
       /\ last.result <=> Hits(A, B) # {}
       /\ last.result =>
            LET first == CHOOSE i \in Hits(A, B) : \A j \in Hits(A, B) : i <= j
                pair == heap[bodyPairs[A][first]]
            IN last.calls[1] =
                 [normal |-> IF pair.bodyA = A THEN pair.mNormal
                             ELSE 0 - pair.mNormal,
                  overlap |-> pair.mOverlap]

\* a call with a callback found two in-collision Pairs connecting the bodies,
\* the first in the reversed order and a later one in the caller's order
C13_Witness ==
  /\ last.op = "inCollision"
  /\ last.hasCb
  /\ last.result
  /\ \E i, j \in Hits(last.body, last.other) :
       /\ i < j
       /\ \A k \in Hits(last.body, last.other) : i <= k
       /\ heap[bodyPairs[last.body][i]].bodyA = last.other
       /\ heap[bodyPairs[last.body][j]].bodyA = last.body

(***************************************************************************)
(* The step.                                                               *)
(***************************************************************************)
\* C14: a body whose inverse mass is 0 has the same position and the same
\* velocity after a step as before it, whatever the contacts, the gravity
\* and its accumulated force
C14_StaticInvariance ==
  [][Called("step") =>
       \A b \in Bodies : mInvMass(b) = 0 =>
         mPosition'[b] = mPosition[b] /\ mVelocity'[b] = mVelocity[b]]_vars

\* a step just ran with gravity on, over an active static body that carried
\* an accumulated force and is in contact with a body that is not static
C14_Witness ==
  /\ last.op = "step"
  /\ gravity # 0
  /\ \E b \in last.forced : mInvMass(b) = 0
  /\ \E i \in 1..Len(mContacts) :
       LET p == heap[mContacts[i]]
       IN mInvMass(p.bodyA) + mInvMass(p.bodyB) = 1

\* C15: at the end of every step, every maintained Pair whose in-collision
\* flag is false has accumulated normal impulse 0 and accumulated tangent
\* impulse 0
C15_NoWarmStart ==
  [][Called("step") =>
       \A i \in 1..Len(mPairs') :
         ~heap'[mPairs'[i]].mInCollision =>
           /\ heap'[mPairs'[i]].mNormalImpulse = 0
           /\ heap'[mPairs'[i]].mTangentImpulse = 0]_vars

\* a step just ran in which a maintained Pair that carried a normal impulse
\* from an earlier collision failed the narrow-phase test
C15_Witness ==
  /\ last.op = "step"
  /\ last.cleared # {}

\* C19: a step run with a negative iteration count fails with an error; it
\* never completes as a step of zero iterations
C19_NegativeIterationsFailFast ==
  (last.op = "step" /\ iterations < 0) => last.threw

(***************************************************************************)
(* The bounds.                                                             *)
(***************************************************************************)
\* after the call there is a Pair between every wall and every effective
\* shape of every active body other than the bounds body
WallPairsAfter ==
  \A i \in 1..Len(Walls) :
    \A o \in Range(mBodies') \ {mBoundsBody} :
      \A t \in EffectiveShapes(o) :
        \E j \in 1..Len(mPairs') :
          {heap'[mPairs'[j]].a, heap'[mPairs'[j]].b} = {Walls[i], t}

\* C16: after enableBounds(), whatever setBounds / enableBounds /
\* disableBounds calls came before, the bounds body is in the active-body
\* list and there is a Pair between each of the four walls and every
\* effective shape of every other active body
C16_EnableBoundsPairsWalls ==
  [][Called("enableBounds") =>
       mBoundsBody \in Range(mBodies') /\ WallPairsAfter]_vars

\* C17: after disableBounds() called while the bounds body is active,
\* whatever setBounds / enableBounds calls came before, the bounds body is
\* not in the active-body list and no maintained Pair references it, and
\* the four walls are still attached with their geometry unchanged; an
\* enableBounds() that follows re-creates the wall pairs
C17_DisableBoundsDetaches ==
  [][/\ (Called("disableBounds") /\ mBoundsBody \in Range(mBodies)) =>
          /\ mBoundsBody \notin Range(mBodies')
          /\ \A j \in 1..Len(mPairs') :
               /\ heap'[mPairs'[j]].bodyA # mBoundsBody
               /\ heap'[mPairs'[j]].bodyB # mBoundsBody
          /\ wallsRect' = wallsRect
          /\ nodeCache' = nodeCache
     /\ (/\ Called("enableBounds")
         /\ last.op = "disableBounds"
         /\ last.wasActive) => WallPairsAfter]_vars

\* C18: setBounds changes only the walls' geometry, the bounds parent and
\* the initialized flag: the active-body list, the flat pair list, the hash
\* index, every body's pair list and everything else stay as they were, so
\* enabled bounds stay enabled and disabled bounds stay disabled
C18_SetBoundsFrame ==
  [][Called("setBounds") =>
       /\ mBoundsParent' = last'.other
       /\ mBoundsInited'
       /\ wallsRect' \in Rects
       /\ UNCHANGED <<mBodies, mPairs, mPairsHash, bodyPairs, heap, pool,
                      mCollidersCache, boundsGameObject, nodeCache,
                      physVars>>]_vars

\* setBounds just moved enabled bounds, whose walls are paired with another
\* body, to another rectangle and another parent
C18_Witness ==
  /\ last.op = "setBounds"
  /\ last.wasActive
  /\ mBoundsParent = "panel"
  /\ boundsGameObject = "stage"
  /\ wallsRect # StageBounds
  /\ \E j \in 1..Len(mPairs) : PairAt(j).a = Walls[1] \/ PairAt(j).b = Walls[1]

(***************************************************************************)
(* Messages.                                                               *)
(***************************************************************************)
\* the number of times the callback of a binding ran
TimesInvoked(binding) ==
  Cardinality({i \in 1..Len(invocations) : invocations[i] = binding})

\* C20: a post(name) on a dispatcher that is on stage invokes every listener
\* of the name, the once() listeners among them included, and removes the
\* once() listeners from the list as part of the post; over any sequence of
\* posts the callback of a once() binding runs at most once
C20_OnceFiresOnce ==
  /\ [](\A binding \in 1..Len(bindings) :
          bindings[binding].isOnce => TimesInvoked(binding) <= 1)
  /\ [][(/\ Called("post")
          /\ StageOf(last'.body, onStage) # Null
          /\ \E i \in 1..Len(Listeners(mListeners, last'.body, last'.other)) :
               bindings[Listeners(mListeners, last'.body, last'.other)[i]].isOnce)
         =>
         (/\ last'.calls = Listeners(mListeners, last'.body, last'.other)
          /\ \A i \in 1..Len(Listeners(mListeners', last'.body, last'.other)) :
               ~bindings[Listeners(mListeners', last'.body, last'.other)[i]].isOnce)]_vars

(***************************************************************************)
(* Invariants of the registry.                                             *)
(***************************************************************************)
\* C21: the hash index has an entry under the id of {a, b} if and only if a
\* Pair for shapes a and b is in the flat pair list, and the entry is that
\* very Pair
C21_HashIndexConsistency ==
  /\ \A i \in 1..Len(mPairs) :
       /\ PairId(PairAt(i).a, PairAt(i).b) \in DOMAIN mPairsHash
       /\ mPairsHash[PairId(PairAt(i).a, PairAt(i).b)] = mPairs[i]
  /\ \A k \in DOMAIN mPairsHash :
       \E i \in 1..Len(mPairs) :
         mPairs[i] = mPairsHash[k] /\ PairId(PairAt(i).a, PairAt(i).b) = k

\* C22: the pair list of every active body contains exactly the maintained
\* pairs whose bodyA or bodyB is that body, each once, and every pair of the
\* flat pair list is in the pair lists of both of its bodies
C22_BodyPairListConsistency ==
  /\ \A b \in Active :
       /\ Range(bodyPairs[b]) =
            {p \in Range(mPairs) : heap[p].bodyA = b \/ heap[p].bodyB = b}
       /\ \A i, j \in 1..Len(bodyPairs[b]) :
            bodyPairs[b][i] = bodyPairs[b][j] => i = j
  /\ \A i \in 1..Len(mPairs) :
       /\ mPairs[i] \in Range(bodyPairs[PairAt(i).bodyA])
       /\ mPairs[i] \in Range(bodyPairs[PairAt(i).bodyB])

\* C23: both bodies of every maintained Pair are active, and the maintained
\* shape pairs are exactly the combinations of an effective shape of one
\* active body with an effective shape of another
C23_PairsAreCrossProduct ==
  /\ \A i \in 1..Len(mPairs) :
       PairAt(i).bodyA \in Active /\ PairAt(i).bodyB \in Active
  /\ {ShapesAt(i) : i \in 1..Len(mPairs)} =
       UNION {{{s, t} : s \in EffectiveShapes(bb[1]), t \in EffectiveShapes(bb[2])} :
                bb \in {x \in Active \X Active : x[1] # x[2]}}


(***************************************************************************)
(* Adding a body and removing it again.                                    *)
(***************************************************************************)
\* the registry after body is added and then removed, nothing in between
AddThenRemove(body) ==
  LET cache == Caches(mCollidersCache, boundsGameObject, nodeCache)
  IN __removeBody(__addBody(World, cache, body), cache, body)

\* C24: adding a body that is not active and removing it straight away
\* restores the active-body list, the flat pair list (the same pairs in the
\* same order), the hash index and the pair list of every other body to
\* what they were before the add.
C24_AddRemoveRoundTrip ==
  \A body \in Bodies \ Active :
    LET w == AddThenRemove(body)
    IN /\ w.mBodies = mBodies
       /\ w.mPairs = mPairs
       /\ w.mPairsHash = mPairsHash
       /\ \A other \in AllBodies \ {body} : w.bodyPairs[other] = bodyPairs[other]


(***************************************************************************)
(* The pair pools.                                                         *)
(***************************************************************************)
\* how many times x occurs in seq
Count(seq, x) == Cardinality({i \in 1..Len(seq) : seq[i] = x})

\* pair p is in the flat list, the hash index or the pair list of a body
InRegistry(p) ==
  \/ p \in Range(mPairs)
  \/ \E k \in DOMAIN mPairsHash : mPairsHash[k] = p
  \/ \E b \in AllBodies : p \in Range(bodyPairs[b])

\* pair p lies released in a pool
Released(p) == \E k \in PairKinds : p \in Range(pool[k])

\* what a handler does to the pair objects: every occurrence of a pair that
\* enters the flat list is taken from the pool of the pair's kind (which
\* constructs the pair when it has none), every occurrence that leaves is
\* pushed once onto that pool, and no other pool ever holds the pair
PoolStep ==
  \A p \in 1..Len(heap') :
    LET kind == heap'[p].kind
        held == IF p <= Len(heap)
                  THEN Count(mPairs, p) + Count(pool[kind], p)
                  ELSE 1
    IN /\ Count(mPairs', p) + Count(pool'[kind], p) = held
       /\ \A k \in PairKinds \ {kind} : Count(pool'[k], p) = 0
       /\ p <= Len(heap) => heap[p].kind = kind

\* C25: every Pair that enters the registry is obtained from the pool of its
\* own kind, every Pair that leaves it is released to that pool exactly once
\* per removal, and no Pair is ever in the registry (flat list, hash index
\* or a body's pair list) and released to a pool at the same time.
C25_PoolDiscipline ==
  /\ [](\A p \in 1..Len(heap) : ~(InRegistry(p) /\ Released(p)))
  /\ [][PoolStep]_vars

\* a pair taken back from a pool stands behind a pair constructed after it,
\* while another pair lies released
C25_Witness ==
  /\ last.op = "addBody"
  /\ \E i, j \in 1..Len(mPairs) : i < j /\ mPairs[i] > mPairs[j]
  /\ \E k \in PairKinds : Len(pool[k]) > 0


(***************************************************************************)
(* The calls of one step.                                                  *)
(***************************************************************************)
\* the phase of a step a logged call belongs to
Phase(call) ==
  CASE call = "update" -> 1
    [] call = "mark" -> 2
    [] call = "test" -> 3
    [] call \in {"push", "reset"} -> 4
    [] call = "velocity" -> 5
    [] call = "preSolve" -> 6
    [] call = "solveVelocity" -> 7
    [] call \in {"clearForce", "position"} -> 8
    [] call = "solvePosition" -> 9

\* the bodies or pairs the calls of the given names were made on, in order
CallsOn(log, names) ==
  LET made == SelectSeq(log, LAMBDA e : e.call \in names)
  IN [k \in 1..Len(made) |-> made[k].on]

\* C26: within one step the phases run in the order shape refresh of every
\* active body, marking of every pair, narrow-phase tests, building of the
\* contact list, velocity integration, preSolve of the contacts, velocity
\* iterations, position integration, position iterations; no call of a
\* later phase comes before a call of an earlier one.
C26_PhaseOrder ==
  [][Called("step") =>
       /\ \A i, j \in 1..Len(last'.calls) :
            i < j => Phase(last'.calls[i].call) <= Phase(last'.calls[j].call)
       /\ CallsOn(last'.calls, {"update"}) = mBodies
       /\ CallsOn(last'.calls, {"mark"}) = mPairs
       /\ CallsOn(last'.calls, {"push", "reset"}) = mPairs
       /\ CallsOn(last'.calls, {"clearForce"}) = mBodies]_vars

\* a step in which every one of the nine phases had something to do
C26_Witness ==
  /\ last.op = "step"
  /\ {Phase(last.calls[i].call) : i \in 1..Len(last.calls)} = 1..9


\* seq written n times in a row
Repeat(seq, n) ==
  [k \in 1..(n * Len(seq)) |-> seq[((k - 1) % Len(seq)) + 1]]

\* C27: in a step with iterations = n >= 0 every pair of the contact list
\* gets exactly one preSolve call, n solveVelocity calls and n solvePosition
\* calls, every iteration sweeps the contacts in contact-list order, and a
\* pair that is not in the contact list gets none of these calls.
C27_SolverCallCounts ==
  [][Called("step") /\ iterations >= 0 =>
       /\ CallsOn(last'.calls, {"preSolve"}) = mContacts'
       /\ CallsOn(last'.calls, {"solveVelocity"}) = Repeat(mContacts', iterations)
       /\ CallsOn(last'.calls, {"solvePosition"}) = Repeat(mContacts', iterations)]_vars

\* a step with two iterations and a contact
C27_Witness ==
  /\ last.op = "step"
  /\ iterations = 2
  /\ Len(mContacts) > 0
  /\ Len(CallsOn(last.calls, {"solveVelocity"})) = 2 * Len(mContacts)


\* C28: every step calls test() exactly once on every Pair of the flat pair
\* list, whatever the in-collision flag of the pair was before the step and
\* however far apart its shapes are: no pair is culled before the narrow
\* phase.
C28_EveryPairTested ==
  [][Called("step") => CallsOn(last'.calls, {"test"}) = mPairs]_vars

\* a step that tested a pair of shapes that are apart
C28_Witness ==
  /\ last.op = "step"
  /\ \E i \in 1..Len(mPairs) :
       /\ ~PairAt(i).mInCollision
       /\ Abs(mPosition[PairAt(i).bodyB] - mPosition[PairAt(i).bodyA]) >=
            Extent(PairAt(i).a) + Extent(PairAt(i).b)
       /\ \E k \in 1..Len(last.calls) :
            last.calls[k].call = "test" /\ last.calls[k].on = mPairs[i]


\* the pairs of the flat list whose in-collision flag is set, in list order
InCollisionPairs == SelectSeq(mPairs, LAMBDA p : heap[p].mInCollision)

\* C29: after the narrow phase of a step the contact list holds exactly the
\* maintained pairs whose in-collision flag is true, each once and in the
\* order of the flat pair list, and no pair of an earlier step.
C29_ContactsArePartition == last.op = "step" => mContacts = InCollisionPairs

\* a step that put some of the pairs in the contact list and left others out
C29_Witness ==
  /\ last.op = "step"
  /\ Len(mContacts) > 0
  /\ Len(mContacts) < Len(mPairs)


\* the velocities a step of dt gives when no body carries a force
VelocityUnforced(dt) ==
  onFixedUpdate([heap |-> heap, contacts |-> mContacts, pos |-> mPosition,
                 vel |-> mVelocity, force |-> [b \in Bodies |-> 0],
                 log |-> <<>>],
                mBodies, mPairs, iterations, gravity, dt).vel

\* C30: after every step the accumulated force of every active body, static
\* or not, is zero, and a force applied before a step acts on the velocity
\* of that step only: the step that follows at once gives the velocities of
\* a step without any force.
C30_ForceCleared ==
  [][Called("step") =>
       /\ \A b \in Range(mBodies) : mForce'[b] = 0
       /\ last.op = "step" =>
            \E dt \in TimeSteps : mVelocity' = VelocityUnforced(dt)]_vars

\* a step that used and cleared the force of a static and of a moving body
C30_Witness ==
  /\ last.op = "step"
  /\ \E b \in last.forced : mInvMass(b) = 0 /\ mForce[b] = 0
  /\ \E b \in last.forced : mInvMass(b) # 0 /\ mForce[b] = 0 /\ mVelocity[b] # 0


(***************************************************************************)
(* The default bounds.                                                     *)
(***************************************************************************)
\* how often __initBounds has run: only it attaches the walls to the stage
TimesInited == Count(nodeCache["stage"], Walls[1])

\* C31: the default geometry is computed only when the bounds were never
\* initialized: over any sequence of setBounds, enableBounds and
\* disableBounds the initialization from the stage bounds runs at most
\* once, and an enableBounds() after a setBounds() leaves the custom wall
\* geometry and the custom parent as they are.
C31_DefaultBoundsOnce ==
  /\ [](TimesInited <= 1)
  /\ [][Called("enableBounds") /\ mBoundsInited =>
          /\ wallsRect' = wallsRect
          /\ mBoundsParent' = mBoundsParent
          /\ TimesInited' = TimesInited]_vars

\* the bounds were enabled by default, then set to a custom frame on another
\* parent and enabled again
C31_Witness ==
  /\ last.op = "enableBounds"
  /\ TimesInited = 1
  /\ wallsRect \in Rects
  /\ wallsRect # StageBounds
  /\ mBoundsParent = "panel"


(***************************************************************************)
(* The routing of a post.                                                  *)
(***************************************************************************)
\* the binding is an overheard one, kept in the global table
Overheard(binding) ==
  \E k \in DOMAIN mOverheardHandlers : binding \in Range(mOverheardHandlers[k])

\* the post that has just returned was written with the `~` prefix from a
\* sender whose chain of parents ends at the stage
BubbledToStage ==
  /\ Called("post")
  /\ last'.other[1] = "~"
  /\ StageOf(last'.body, onStage) = "stage"

\* C32: a message posted with the `~` prefix is offered to the sender and then
\* to every ancestor up to the stage, child before parent, along the chain of
\* parents as it is when the post starts: unless a listener cancels the
\* message every listener of the stage is called, also when a listener of a
\* node between detaches that node during the dispatch
C32_BubblingReachesStage ==
  [][(BubbledToStage /\ ~last'.canceled)
     =>
     LET chain == Chain(last'.body, onStage)
         atStage == Listeners(mListeners, "stage", Tail(last'.other))
         calls == last'.calls
     IN /\ \A i \in 1..Len(atStage) : IndexOf(calls, atStage[i]) # -1
        /\ \A i \in 1..Len(calls) :
             ~Overheard(calls[i]) =>
               bindings[calls[i]].owner \in Range(chain)
        /\ \A i, j \in 1..Len(calls) :
             (i < j /\ ~Overheard(calls[i]) /\ ~Overheard(calls[j])) =>
               IndexOf(chain, bindings[calls[i]].owner)
                 <= IndexOf(chain, bindings[calls[j]].owner)]_vars

\* C33: once a listener calls cancel() on the message of a post no further
\* listener is called for that post, not of the same dispatcher, not of a
\* later ancestor and not an overheard one, and the message is still
\* released to the pool exactly once
C33_CancelStopsDelivery ==
  [][Called("post")
     =>
     \A i \in 1..Len(last'.calls) :
       bindings[last'.calls[i]].callback = "cancel" =>
         /\ i = Len(last'.calls)
         /\ last'.released = 1]_vars

\* the path is the pattern, or the pattern is the glob that matches every
\* path of one segment
Matches(path, pattern) == path = pattern \/ pattern = <<"*">>

\* the binding that an on() with an `@` in the name has just made is in the
\* global table under the message name and carries the pattern
StoredWithPattern ==
  LET earIndex == IndexOf(last'.name, "@")
      binding == Len(bindings')
  IN /\ Len(bindings') = Len(bindings) + 1
     /\ SubSeq(last'.name, 1, earIndex) \in DOMAIN mOverheardHandlers'
     /\ binding \in Range(mOverheardHandlers'[SubSeq(last'.name, 1, earIndex)])
     /\ bindings'[binding].pathPattern =
          <<SubSeq(last'.name, earIndex + 2, Len(last'.name))>>

\* the overheard bindings of the name that the post has just called are
\* the ones whose owner is on stage and whose pattern the path of the
\* sender matches
CalledWhenMatching ==
  LET name == __draftMessage(last'.other).name
  IN \A binding \in 1..Len(bindings) :
       (/\ name \in DOMAIN mOverheardHandlers
        /\ binding \in Range(mOverheardHandlers[name])
        /\ StageOf(bindings[binding].owner, onStage') # Null)
       =>
       (IndexOf(last'.calls, binding) # -1
          <=> /\ bindings[binding].pathPattern # <<>>
              /\ Matches(PathOf(last'.body)[1],
                         bindings[binding].pathPattern[1]))

\* C34: a listener registered with on('name@pattern') is stored as a global
\* binding that carries the pattern; a post('name') that is not canceled
\* calls it when its owner is on stage and the path of the sender equals the
\* pattern or matches its glob, and does not call it for a sender whose path
\* does not match
C34_OverheardFiltersByPath ==
  /\ [][(Called("on") /\ IndexOf(last'.name, "@") # -1)
        => StoredWithPattern]_vars
  /\ [][(Called("post") /\ ~last'.canceled /\ ~last'.threw)
        => CalledWhenMatching]_vars

(***************************************************************************)
(* The texture unit cache.                                                 *)
(***************************************************************************)
\* the units of a table that hold the texture
UnitsOf(table, texture) == {i \in 1..Len(table) : table[i] = texture}

\* every unit is used by the batch
BatchFull == \A i \in 1..Len(mBatchTextures) : mBatchTextures[i] # Null

\* C35: after any sequence of bindTexture and endBatch calls no texture is
\* in two texture units at once; when bindTexture(t) returns an index i,
\* unit i holds t in the bound table and in the batch table; a texture bound
\* since the last endBatch is not evicted before the next endBatch; and
\* bindTexture returns no index exactly when t is not bound and every unit is
\* used by the batch
C35_TextureUnitCache ==
  /\ [](\A t \in Textures :
          /\ Cardinality(UnitsOf(mBoundTextures, t)) <= 1
          /\ Cardinality(UnitsOf(mBatchTextures, t)) <= 1)
  /\ [](\A t \in batched : UnitsOf(mBoundTextures, t) # {})
  /\ [][Called("bindTexture")
        =>
        /\ last'.other # <<>> =>
             /\ mBoundTextures'[last'.other[1] + 1] = last'.body
             /\ mBatchTextures'[last'.other[1] + 1] = last'.body
        /\ last'.other = <<>> <=>
             /\ UnitsOf(mBoundTextures, last'.body) = {}
             /\ BatchFull]_vars

\* every unit was taken in this batch and a bindTexture of one more texture
\* returned no index
C35_Witness ==
  /\ last.op = "bindTexture"
  /\ last.other = <<>>
  /\ last.body \notin batched
  /\ Cardinality(batched) = MAX_TEXTURE_IMAGE_UNITS
  /\ BatchFull
====
